---------------------------- MODULE Spec2Model ----------------------------
(***************************************************************************)
(* Model of the configurator_site service: the draft store (Redis keys     *)
(* draft:{id} and lock:commit:{id}), the relational store (tables projects *)
(* and project_configs) and the request handlers that work on them.        *)
(*                                                                         *)
(* One draft id is followed.  Requests on distinct draft ids touch         *)
(* distinct keys and distinct rows and do not interact.                    *)
(*                                                                         *)
(* Every action is one I/O round trip of a handler (one Redis command or   *)
(* one SQL statement) together with the pure code that follows it up to    *)
(* the next await; requests interleave at these points only.               *)
(*                                                                         *)
(* Time is counted in seconds.  The clock advances in steps of TimeUnit.   *)
(*                                                                         *)
(* CommitDraftUseCase is modelled with ProjectRepositoryPostgres as its    *)
(* ProjectRepository.  SiteDraft's constructor check of the brand name is  *)
(* taken to accept every brand profile built by BrandProfile.create, so a  *)
(* value written by the service always deserializes.  For the same reason  *)
(* the reads draft.brandProfile.brandName, .industry and .logo in          *)
(* UpdateDraftUseCase are taken to yield the profile's brand name,         *)
(* industry and logo.                                                      *)
(*                                                                         *)
(* sha256 is taken to be free of collisions on the values hashed here.     *)
(***************************************************************************)
EXTENDS Integers, FiniteSets, Sequences, TLC

\* ------------------------------------------------------------------ bounds
NumCommits == 3          \* Commit requests issued for the draft
MaxTime == 50            \* the clock stops here
TimeUnit == 10           \* seconds per clock step
DraftTtl == 40           \* configured draft TTL (DRAFT_TTL_SECONDS)
DraftSpecCommits == 1    \* Commit requests issued in SpecDraft
LockSpecCommits == 2     \* Commit clients in SpecLock
MaxPieces == 2           \* pieces of markup per document handed to sanitizeHtml
NumUpdates == 2          \* Update requests in flight at once in SpecUpdate
NumConfigIds == 2        \* config ids the generator draws from
MaxSections == 2         \* sections on the home page of a config rendered

\* ------------------------------------------------------- program constants
commitLockTtl == 30      \* CommitDraftUseCase constructor default
MAX_LENGTH == 100         \* BrandName.MAX_LENGTH, and the cut of normalizeBrandName
SlugMaxLength == 50       \* length at which a slug is cut

Max(a, b) == IF a >= b THEN a ELSE b

Req == 1..Max(NumCommits, DraftSpecCommits)
Upd == 1..NumUpdates

\* brand profiles: brand name, industry code, logo asset (NoLogo: no logo)
NoLogo == "none"
Profile(n, i, l) == [brandName |-> n, industry |-> i, logo |-> l]

\* the request bodies of POST /drafts that are followed
Brands == {Profile("Acme", "tech", "logoA"), Profile("Zeta", "tech", "logoA")}

\* the request bodies of PATCH /drafts/{id} that are followed: each field is
\* absent (Unset) or holds a value; logo may also be null (Clear)
Unset == "unset"
Clear == "null"
Patch(n, i, l) == [brandName |-> n, industry |-> i, logo |-> l]
SetName(n) == Patch(n, Unset, Unset)
SetIndustry == Patch(Unset, "finance", Unset)
ClearLogo == Patch(Unset, Unset, Clear)
NamePatches == {SetName("Acme"), SetName("Zeta")}
Patches == {SetName("Zeta"), SetIndustry, ClearLogo}

VARIABLES
  now,              \* wall clock, seconds
  redisDraft,       \* key draft:{id}: value and expiry deadline, or absent
  redisLock,        \* key lock:commit:{id}: expiry deadline, or absent
  projects,         \* committed rows of table projects
  project_configs,  \* committed rows of table project_configs
  tx,               \* per Commit request: rows inserted in its open transaction
  pc,               \* per Commit request: position in CommitDraftUseCase.execute
  err,              \* per Commit request: the error on its way to the catch block
  loaded,           \* per Commit request: brand profile of the draft it loaded
  resp,             \* per Commit request: the HTTP response sent
  created,          \* whether CreateDraft has produced the draft id
  upd,              \* per Update slot: the request in flight (UpdateDraftUseCase)
  prev,             \* the Preview request in flight (GetPreviewUseCase)
  opResp,           \* the last response sent by GetDraft, Update or Preview
  etagSent,         \* the last preview response whose ETag header is followed
  serial,           \* history: the brand profile obtained by applying the
                    \* patches of the successful Updates one after the other
  aux,              \* history: what each Commit request observed
  lapsed,           \* history: whether a key's TTL ran out (draft key; lock key
                    \* while the request that set it was still running)
  arg,              \* the argument handed to the pure function under study
  out,              \* what the function returned or threw, and the reply sent
  watch             \* the Redis connection's WATCH on the draft key: whether it
                    \* is on, and whether the key was written since (only
                    \* updateWithLock puts it on)

vars == <<now, redisDraft, redisLock, projects, project_configs, tx, pc, err,
          loaded, resp, created, upd, prev, opResp, etagSent, serial, aux,
          arg, out, watch>>


\* ------------------------------------------------------------ key-value store
Absent == [present |-> FALSE]

\* SiteDraft.isExpired
isExpired(d, t) == d.expiresAt < t

\* TTL computed by save / update: max(1, floor((expiresAt - now) / 1000))
TtlFromCreation(d, t) == Max(1, d.createdAt + d.ttlSeconds - t)

TtlOf(d, t) == Max(1, d.expiresAt - t)

\* a key holding value v that expires ttl seconds from t
KeyWithTtl(v, ttl, t) == [present |-> TRUE, val |-> v, exp |-> t + ttl]

\* Redis drops a key once its deadline is reached
NeverExpire(k, t) == k

Expire(k, t) == IF k.present /\ k.exp <= t THEN Absent ELSE k

\* SET key v EX ttl NX
SetNX(k, v, ttl, t) == IF k.present THEN k ELSE KeyWithTtl(v, ttl, t)

\* SET key v EX ttl XX
SetXX(k, v, ttl, t) == IF k.present THEN KeyWithTtl(v, ttl, t) ELSE k

\* EXPIRE key ttl
ExpireCmd(k, ttl, t) == IF k.present THEN [k EXCEPT !.exp = t + ttl] ELSE k

\* remaining TTL of a present key
RemainingTtl(k, t) == k.exp - t

\* DEL key
Del(k) == Absent

\* SiteDraftRepositoryRedis.findById, the part after the GET: with refreshTtl
\* the key's TTL is reset to the ttlSeconds of the value read, otherwise the
\* store is left as it is.
RefreshAlways(k, refreshTtl, ttl, t) == ExpireCmd(k, ttl, t)

RefreshOnRead(k, refreshTtl, ttl, t) ==
  IF refreshTtl THEN ExpireCmd(k, ttl, t) ELSE k

\* SiteDraftRepositoryRedis.delete
deleteNothing(k) == k

deleteDraft(k) == Del(k)

\* CommitDraftUseCase.releaseLock
KeepLock(k) == k

releaseLock(k) == Del(k)

\* ----------------------------------------------------------------- entities
\* CreateDraftUseCase: new SiteDraft(..., now, now, now + ttl, ttl, brandProfile, ...)
NewDraft(b, t) ==
  [createdAt |-> t, updatedAt |-> t, expiresAt |-> t + DraftTtl,
   ttlSeconds |-> DraftTtl, brand |-> b]

\* SiteDraft.update
DraftUpdateKeepExpiry(d, b, t) == [d EXCEPT !.updatedAt = t, !.brand = b]

DraftUpdate(d, b, t) ==
  [d EXCEPT !.updatedAt = t, !.expiresAt = t + d.ttlSeconds, !.brand = b]

\* UpdateDraftUseCase.execute, "Apply updates": a field the request carries
\* replaces the draft's, a field it omits keeps the draft's; the logo given
\* is looked up in the asset store (every asset named by Patches exists).
\* BrandProfile.update then keeps each of the three values.
ApplyPatch(cur, p) ==
  Profile(IF p.brandName # Unset THEN p.brandName ELSE cur.brandName,
          IF p.industry # Unset THEN p.industry ELSE cur.industry,
          IF p.logo # Unset THEN p.logo ELSE cur.logo)

\* whether "Apply updates" throws: input.logo.assetId is read when logo is
\* not undefined, and logo = null has no assetId (TypeError)
PatchThrows(p) == p.logo = Clear

\* Project.fromDraft / ProjectConfig.fromSiteConfig: generateId yields an id
\* no other call yields; request r's ids are tagged with r.
NoId == <<>>
NewProjectId(r) == <<"prj", r>>
NewConfigId(r) == <<"cfg", r>>
TheDraftId == "drf"

NewProject(r) ==
  [projectId |-> NewProjectId(r), draftId |-> TheDraftId, status |-> "DRAFT"]
NewProjectConfig(r, b) ==
  [configId |-> NewConfigId(r), projectId |-> NewProjectId(r), configJson |-> b]

NoTx == [project |-> {}, config |-> {}]

\* ------------------------------------------------------------------ strings
\* A string is a sequence of characters, each a one-letter TLA+ string.  NUL
\* and TAB stand for the characters U+0000 and U+0009.  Property names,
\* section ids and section types that the code fixes are kept whole.
Lowercase == {"a", "b", "c", "d", "e", "f", "g", "h", "i", "j", "k", "l", "m",
              "n", "o", "p", "q", "r", "s", "t", "u", "v", "w", "x", "y", "z"}
Digits == {"0", "1", "2", "3", "4", "5", "6", "7", "8", "9"}
Spaces == {" ", "TAB"}

\* String.prototype.replace(/c/g, r) for a one-character pattern c
RECURSIVE ReplaceAll(_, _, _)
ReplaceAll(s, c, r) ==
  IF s = <<>> THEN <<>>
  ELSE (IF Head(s) = c THEN r ELSE <<Head(s)>>) \o ReplaceAll(Tail(s), c, r)

\* the /i flag of a pattern: letters are compared without regard to case
Lower(c) ==
  CASE c = "A" -> "a" [] c = "B" -> "b" [] c = "I" -> "i" [] c = "J" -> "j"
    [] c = "L" -> "l"
    [] c = "N" -> "n" [] c = "O" -> "o" [] c = "S" -> "s" [] c = "U" -> "u"
    [] c = "Z" -> "z" [] OTHER -> c

\* whether pattern pat, given in lower case, occurs in s (flag /i)
Contains(s, pat) ==
  \E i \in 1..(Len(s) - Len(pat) + 1) :
    \A m \in 1..Len(pat) : Lower(s[i + m - 1]) = pat[m]

\* the last index of the longest run of characters of class cls that starts
\* at index i of s (i - 1 when there is none)
RECURSIVE RunEnd(_, _, _)
RunEnd(s, i, cls) ==
  IF i <= Len(s) /\ s[i] \in cls THEN RunEnd(s, i + 1, cls) ELSE i - 1

\* brand names
Acme == <<"A", "c", "m", "e">>
Zeta == <<"Z", "e", "t", "a">>

\* ------------------------------------------------------------- JSON values
JStr(s) == [k |-> "str", v |-> s]
JNull == [k |-> "null", v |-> <<>>]
JArr(items) == [k |-> "arr", v |-> items]
\* an object: its entries <<name, value>> in insertion order
JObj(entries) == [k |-> "obj", v |-> entries]

\* obj[name], undefined when the object has no such property
Get(obj, name) ==
  IF obj.k = "obj" /\ \E i \in 1..Len(obj.v) : obj.v[i][1] = name
  THEN obj.v[CHOOSE i \in 1..Len(obj.v) : obj.v[i][1] = name][2]
  ELSE [k |-> "undefined", v |-> <<>>]

\* the pieces of a list with sep between them
RECURSIVE Join(_, _)
Join(pieces, sep) ==
  IF pieces = <<>> THEN <<>>
  ELSE IF Len(pieces) = 1 THEN pieces[1]
  ELSE pieces[1] \o sep \o Join(Tail(pieces), sep)

\* JSON.stringify of a string: the quoted form
quote(s) ==
  LET a == ReplaceAll(s, "\\", <<"\\", "\\">>)
      b == ReplaceAll(a, "\"", <<"\\", "\"">>)
      c == ReplaceAll(b, "TAB", <<"\\", "t">>)
      d == ReplaceAll(c, "NUL", <<"\\", "u", "0", "0", "0", "0">>)
  IN <<"\"">> \o d \o <<"\"">>

\* JSON.stringify
RECURSIVE stringify(_)
stringify(x) ==
  CASE x.k = "str"  -> quote(x.v)
    [] x.k = "null" -> <<"null">>
    [] x.k = "arr"  ->
         <<"[">> \o Join([i \in 1..Len(x.v) |-> stringify(x.v[i])], <<",">>)
                 \o <<"]">>
    [] x.k = "obj"  ->
         <<"{">> \o Join([i \in 1..Len(x.v) |->
                            <<"\"", x.v[i][1], "\"", ":">> \o stringify(x.v[i][2])],
                         <<",">>)
                 \o <<"}">>

\* ---------------------------------------------------------- lib/html-escape
\* escapeHtml: & first, then < > " '
escapeHtml(unsafe) ==
  LET a == ReplaceAll(unsafe, "&", <<"&", "a", "m", "p", ";">>)
      b == ReplaceAll(a, "<", <<"&", "l", "t", ";">>)
      c == ReplaceAll(b, ">", <<"&", "g", "t", ";">>)
      d == ReplaceAll(c, "\"", <<"&", "q", "u", "o", "t", ";">>)
  IN ReplaceAll(d, "'", <<"&", "#", "0", "3", "9", ";">>)

\* escapeHtmlInObject: every string of the tree escaped, the shape kept
RECURSIVE escapeHtmlInObject(_)
escapeHtmlInObject(obj) ==
  CASE obj.k = "str" -> JStr(escapeHtml(obj.v))
    [] obj.k = "arr" -> JArr([i \in 1..Len(obj.v) |-> escapeHtmlInObject(obj.v[i])])
    [] obj.k = "obj" ->
         JObj([i \in 1..Len(obj.v) |->
                 <<obj.v[i][1], escapeHtmlInObject(obj.v[i][2])>>])
    [] OTHER -> obj

\* the pattern /on\w+\s*=/i
MatchesEventHandler(str) ==
  \E i \in 1..(Len(str) - 1) :
    /\ Lower(str[i]) = "o"
    /\ Lower(str[i + 1]) = "n"
    /\ LET j == RunEnd(str, i + 2, (Lowercase \cup Digits \cup {"_", "A", "B", "I", "L", "N", "O", "S", "U", "Z"}))
           n == RunEnd(str, j + 1, Spaces)
       IN /\ j >= i + 2
          /\ n + 1 <= Len(str)
          /\ str[n + 1] = "="

\* containsUnsafeContent
containsUnsafeContent(str) ==
  \/ Contains(str, <<"<", "s", "c", "r", "i", "p", "t">>)
  \/ Contains(str, <<"<", "i", "f", "r", "a", "m", "e">>)
  \/ Contains(str, <<"<", "o", "b", "j", "e", "c", "t">>)
  \/ Contains(str, <<"<", "e", "m", "b", "e", "d">>)
  \/ Contains(str, <<"j", "a", "v", "a", "s", "c", "r", "i", "p", "t", ":">>)
  \/ MatchesEventHandler(str)

\* ------------------------------------------------------ config generation
\* TemplateRegistry.getByIndustry
getByIndustry(industryCode) ==
  CASE industryCode = "tech"    -> "it_services"
    [] industryCode = "finance" -> "finance_professional"
    [] OTHER                    -> "default"

\* TemplateLoader.load: the templateId of the definition loaded; an id
\* without a definition falls back to the default template
load(templateId) ==
  IF templateId \in {"it_services", "default"} THEN templateId ELSE "default"

\* the characters of a brand name of the store model
Spell(brandName) ==
  CASE brandName = "Acme" -> Acme
    [] brandName = "Zeta" -> Zeta
    [] OTHER              -> brandName

\* s without its leading characters of class cls
RECURSIVE TrimLeft(_, _)
TrimLeft(s, cls) ==
  IF s # <<>> /\ Head(s) \in cls THEN TrimLeft(Tail(s), cls) ELSE s

\* s without its trailing characters of class cls
RECURSIVE TrimRight(_, _)
TrimRight(s, cls) ==
  IF s # <<>> /\ s[Len(s)] \in cls
  THEN TrimRight(SubSeq(s, 1, Len(s) - 1), cls) ELSE s

\* String.prototype.trim
Trim(s) == TrimRight(TrimLeft(s, Spaces), Spaces)

\* String.prototype.substring(0, n)
Substring0(s, n) == IF Len(s) <= n THEN s ELSE SubSeq(s, 1, n)

\* String.prototype.replace(/\s+/g, ' ')
RECURSIVE CollapseSpaces(_)
CollapseSpaces(s) ==
  IF s = <<>> THEN <<>>
  ELSE IF Head(s) \in Spaces THEN <<" ">> \o CollapseSpaces(TrimLeft(s, Spaces))
  ELSE <<Head(s)>> \o CollapseSpaces(Tail(s))

NotControl(c) == c \notin {"NUL", "TAB"}

\* SiteConfigGeneratorImpl.normalizeBrandName: trim, drop control
\* characters, collapse whitespace, cut at 100
normalizeBrandName(brandName) ==
  Substring0(CollapseSpaces(SelectSeq(Trim(brandName), NotControl)), MAX_LENGTH)


\* runs of hyphens made one
RECURSIVE Dedupe(_)
Dedupe(s) ==
  IF Len(s) < 2 THEN s
  ELSE IF s[1] = "-" /\ s[2] = "-" THEN Dedupe(Tail(s))
  ELSE <<s[1]>> \o Dedupe(Tail(s))

\* lib/slug generateSlug: lower case, every run of characters outside
\* [a-z0-9] replaced by "-", hyphens trimmed at both ends, cut at 50, "site"
\* when nothing is left.  No character here needs transliteration.
generateSlug(brandName) ==
  LET lowered == [i \in 1..Len(Spell(brandName)) |-> Lower(Spell(brandName)[i])]
      hyphenated == [i \in 1..Len(lowered) |->
                       IF lowered[i] \in Lowercase \cup Digits THEN lowered[i] ELSE "-"]
      slug == Substring0(TrimRight(TrimLeft(Dedupe(hyphenated), {"-"}), {"-"}),
                         SlugMaxLength)
  IN IF slug = <<>> THEN <<"s", "i", "t", "e">> ELSE slug

\* --------------------------------------------------------- template tokens
TokBrandName == <<"{", "{", "b", "r", "a", "n", "d", "N", "a", "m", "e", "}", "}">>
TokIndustryLabel ==
  <<"{", "{", "i", "n", "d", "u", "s", "t", "r", "y", "L", "a", "b", "e", "l", "}", "}">>
TokLogoUrl == <<"{", "{", "l", "o", "g", "o", "U", "r", "l", "}", "}">>
TokSlug == <<"{", "{", "s", "l", "u", "g", "}", "}">>
TokLogoAssetId ==
  <<"{", "{", "l", "o", "g", "o", "A", "s", "s", "e", "t", "I", "d", "}", "}">>

\* the replacement string of String.prototype.replace with its patterns
\* expanded: $$ is $, $& the match, $` the text before it, $' the text after
RECURSIVE Expand(_, _, _, _)
Expand(r, match, before, after) ==
  IF r = <<>> THEN <<>>
  ELSE IF Len(r) >= 2 /\ r[1] = "$" /\ r[2] \in {"$", "&", "`", "'"}
  THEN (CASE r[2] = "$" -> <<"$">>
          [] r[2] = "&" -> match
          [] r[2] = "`" -> before
          [] r[2] = "'" -> after) \o Expand(SubSeq(r, 3, Len(r)), match, before, after)
  ELSE <<r[1]>> \o Expand(Tail(r), match, before, after)

\* String.prototype.replace(/pat/g, r) from index i of s on
RECURSIVE ReplaceFrom(_, _, _, _)
ReplaceFrom(s, i, pat, r) ==
  IF i > Len(s) THEN <<>>
  ELSE IF i + Len(pat) - 1 <= Len(s) /\ SubSeq(s, i, i + Len(pat) - 1) = pat
  THEN Expand(r, pat, SubSeq(s, 1, i - 1), SubSeq(s, i + Len(pat), Len(s)))
         \o ReplaceFrom(s, i + Len(pat), pat, r)
  ELSE <<s[i]>> \o ReplaceFrom(s, i + 1, pat, r)

\* resolveTokens: four replacements one after the other
resolveTokens(template, context) ==
  LET a == ReplaceFrom(template, 1, TokBrandName, context.brandName)
      b == ReplaceFrom(a, 1, TokIndustryLabel, context.industryLabel)
      c == ReplaceFrom(b, 1, TokLogoUrl, context.logoUrl)
  IN ReplaceFrom(c, 1, TokSlug, context.slug)

\* the property name Object.entries gives the element at index i of an array
IndexName(i) == CASE i = 1 -> "0" [] i = 2 -> "1" [] i = 3 -> "2" [] OTHER -> "n"

\* resolveSectionProps: strings resolved, objects walked, the elements of
\* an array walked when typeof says object (an array among them comes back
\* as an object keyed by index) and kept as they are otherwise
RECURSIVE resolveSectionProps(_, _)
resolveSectionProps(props, context) ==
  LET Entries == IF props.k = "arr"
                 THEN [i \in 1..Len(props.v) |-> <<IndexName(i), props.v[i]>>]
                 ELSE props.v
      Item(x) == IF x.k \in {"obj", "arr"} THEN resolveSectionProps(x, context) ELSE x
      Value(x) ==
        CASE x.k = "str" -> JStr(resolveTokens(x.v, context))
          [] x.k = "arr" -> JArr([i \in 1..Len(x.v) |-> Item(x.v[i])])
          [] x.k = "obj" -> resolveSectionProps(x, context)
          [] OTHER       -> x
  IN JObj([i \in 1..Len(Entries) |-> <<Entries[i][1], Value(Entries[i][2])>>])

\* resolveSectionProps throws a TypeError: an array holds null, typeof null
\* is 'object', and the call for it reaches Object.entries(null)
RECURSIVE resolveThrows(_)
resolveThrows(props) ==
  LET Values == IF props.k = "arr" THEN props.v
                ELSE [i \in 1..Len(props.v) |-> props.v[i][2]]
      ItemThrows(x) == x.k = "null" \/ (x.k \in {"obj", "arr"} /\ resolveThrows(x))
  IN \E i \in 1..Len(Values) :
       \/ Values[i].k = "arr" /\ \E j \in 1..Len(Values[i].v) : ItemThrows(Values[i].v[j])
       \/ Values[i].k = "obj" /\ resolveThrows(Values[i])


\* AssetInfo of a logo: its public url, and its id as a JSON value
LogoUrl(logo) == IF logo = NoLogo THEN <<>> ELSE <<"/assets/", logo>>
LogoAssetId(logo) == IF logo = NoLogo THEN JNull ELSE JStr(<<logo>>)

\* SiteConfigGeneratorImpl.generate, step 5, for one section template
generateSection(sectionTemplate, context, logo) ==
  LET resolvedProps == resolveSectionProps(sectionTemplate.props, context)
  IN [id |-> sectionTemplate.id, type |-> sectionTemplate.type,
      props |-> IF Get(resolvedProps, "logoAssetId") = JStr(TokLogoAssetId)
                THEN JObj([i \in 1..Len(resolvedProps.v) |->
                             IF resolvedProps.v[i][1] = "logoAssetId"
                             THEN <<"logoAssetId", LogoAssetId(logo)>>
                             ELSE resolvedProps.v[i]])
                ELSE resolvedProps]

\* IndustryInfo INDUSTRY_MAP: the label of a code, the code itself when the
\* map has none
INDUSTRY_MAP(code) ==
  CASE code = "tech"    -> <<"Tehnologii">>
    [] code = "finance" -> <<"Finansy">>
    [] code = "other"   -> <<"Drugoe">>
    [] OTHER            -> <<code>>

\* the fixed texts of the templates are kept whole
ITServicesTemplate ==
  [templateId |-> "it_services",
   titleSuffix |-> <<"IT-uslugi">>,
   descriptionTemplate |-> <<"Razrabotka saitov i cifrovyh produktov dlya biznesa.">>,
   pages |-> <<
     [id |-> "home", titleTemplate |-> <<"Glavnaya">>,
      sections |-> <<
        [id |-> "hero_1", type |-> "hero",
         props |-> JObj(<<
           <<"headline", JStr(TokBrandName \o <<" ", "IT-uslugi dlya rosta biznesa">>)>>,
           <<"subheadline", JStr(<<"Saity, dizain i razrabotka pod klyuch.">>)>>,
           <<"primaryCta", JObj(<< <<"text", JStr(<<"Poluchit konsultaciyu">>)>>,
                                   <<"href", JStr(<<"#contact">>)>> >>)>>,
           <<"secondaryCta", JObj(<< <<"text", JStr(<<"Posmotret keisy">>)>>,
                                     <<"href", JStr(<<"#cases">>)>> >>)>>,
           <<"logoAssetId", JStr(TokLogoAssetId)>> >>)],
        [id |-> "services_1", type |-> "features",
         props |-> JObj(<<
           <<"title", JStr(<<"Chto my delaem">>)>>,
           <<"items", JArr(<<
              JObj(<< <<"title", JStr(<<"Saity">>)>>,
                      <<"text", JStr(<<"Lendingi, korporativnye, magaziny.">>)>> >>),
              JObj(<< <<"title", JStr(<<"Dizain">>)>>,
                      <<"text", JStr(<<"Logotipy, oblozhki, UI/UX.">>)>> >>),
              JObj(<< <<"title", JStr(<<"Podderzhka">>)>>,
                      <<"text", JStr(<<"Soprovozhdenie i dorabotki.">>)>> >>) >>)>> >>)],
        [id |-> "about_1", type |-> "about",
         props |-> JObj(<<
           <<"title", JStr(<<"O nas">>)>>,
           <<"text", JStr(<<"My ">> \o TokBrandName
                            \o <<", komanda professionalov v sfere ">>
                            \o TokIndustryLabel \o <<".">>)>> >>)],
        [id |-> "contact_1", type |-> "contact",
         props |-> JObj(<<
           <<"title", JStr(<<"Svyazatsya s nami">>)>>,
           <<"subtitle", JStr(<<"Ostavte zayavku.">>)>>,
           <<"fields", JArr(<<JStr(<<"name">>), JStr(<<"phone">>),
                              JStr(<<"message">>)>>)>> >>)] >>] >>]

DefaultTemplate ==
  [templateId |-> "default",
   titleSuffix |-> <<"Professionalnye uslugi">>,
   descriptionTemplate |-> <<"Kachestvennyi servis i professionalizm.">>,
   pages |-> <<
     [id |-> "home", titleTemplate |-> <<"Glavnaya">>,
      sections |-> <<
        [id |-> "hero_1", type |-> "hero",
         props |-> JObj(<<
           <<"headline", JStr(<<"Dobro pozhalovat v ">> \o TokBrandName)>>,
           <<"subheadline", JStr(<<"Professionalnye uslugi.">>)>>,
           <<"primaryCta", JObj(<< <<"text", JStr(<<"Uznat bolshe">>)>>,
                                   <<"href", JStr(<<"#about">>)>> >>)>>,
           <<"logoAssetId", JStr(TokLogoAssetId)>> >>)],
        [id |-> "services_1", type |-> "features",
         props |-> JObj(<<
           <<"title", JStr(<<"Nashi uslugi">>)>>,
           <<"items", JArr(<<
              JObj(<< <<"title", JStr(<<"Professionalnyi servis">>)>>,
                      <<"text", JStr(<<"Ekspertnye resheniya.">>)>> >>),
              JObj(<< <<"title", JStr(<<"Klientskaya podderzhka">>)>>,
                      <<"text", JStr(<<"Professionalnaya podderzhka.">>)>> >>),
              JObj(<< <<"title", JStr(<<"Garantiya kachestva">>)>>,
                      <<"text", JStr(<<"Stremlenie k sovershenstvu.">>)>> >>) >>)>> >>)],
        [id |-> "about_1", type |-> "about",
         props |-> JObj(<<
           <<"title", JStr(<<"O kompanii ">> \o TokBrandName)>>,
           <<"text", JStr(<<"Kachestvennyi servis v sfere ">>
                            \o TokIndustryLabel \o <<".">>)>> >>)],
        [id |-> "contact_1", type |-> "contact",
         props |-> JObj(<<
           <<"title", JStr(<<"Svyazhites s nami">>)>>,
           <<"subtitle", JStr(<<"My budem rady otvetit.">>)>>,
           <<"fields", JArr(<<JStr(<<"name">>), JStr(<<"email">>),
                              JStr(<<"message">>)>>)>> >>)] >>] >>]

\* TemplateLoader TEMPLATES: the definition of a loaded template id
TEMPLATES(templateId) ==
  IF templateId = "it_services" THEN ITServicesTemplate ELSE DefaultTemplate

\* the token context generate builds for a brand profile
tokenContext(brand) ==
  [brandName |-> normalizeBrandName(Spell(brand.brandName)),
   industryLabel |-> INDUSTRY_MAP(brand.industry),
   logoUrl |-> LogoUrl(brand.logo),
   slug |-> generateSlug(normalizeBrandName(Spell(brand.brandName)))]

\* SiteConfigGeneratorImpl.generate, step 5: the pages of a template
generatePages(template, context, logo) ==
  [p \in 1..Len(template.pages) |->
     [id |-> template.pages[p].id,
      title |-> resolveTokens(template.pages[p].titleTemplate, context),
      sections |-> [i \in 1..Len(template.pages[p].sections) |->
                      generateSection(template.pages[p].sections[i], context, logo)]]]

\* SiteConfigGeneratorImpl.generateConfigId: a uuid; the ids in use are told
\* apart, no call returns an id another call returned
CfgIds == 1..NumConfigIds

\* SiteConfigGeneratorImpl.generate for draft d, with the config id and the
\* clock reading the call obtains.  The pages and the site texts are
\* functions of the template and of the brand name, industry and logo
\* (generatePages, tokenContext); the config names them by these values.
generateStamped(d, configId, t) ==
  LET template == load(getByIndustry(d.brand.industry))
  IN [configId |-> configId, draftId |-> TheDraftId, generatedAt |-> t,
      generator |-> [engine |-> "configurator_site", templateId |-> template],
      brand |-> [name |-> d.brand.brandName, industry |-> d.brand.industry,
                 slug |-> generateSlug(d.brand.brandName), logo |-> d.brand.logo],
      site |-> [title |-> <<d.brand.brandName, template, t>>,
                ogImageAssetId |-> d.brand.logo],
      theme |-> <<template, "default">>,
      pages |-> <<template, d.brand.brandName, d.brand.industry, d.brand.logo>>,
      assets |-> IF d.brand.logo = NoLogo THEN <<>> ELSE <<d.brand.logo>>]

generate(d, configId, t) ==
  LET template == load(getByIndustry(d.brand.industry))
  IN [configId |-> configId, draftId |-> TheDraftId, generatedAt |-> t,
      generator |-> [engine |-> "configurator_site", templateId |-> template],
      brand |-> [name |-> d.brand.brandName, industry |-> d.brand.industry,
                 slug |-> generateSlug(d.brand.brandName), logo |-> d.brand.logo],
      site |-> [title |-> <<d.brand.brandName, template>>,
                ogImageAssetId |-> d.brand.logo],
      theme |-> <<template, "default">>,
      pages |-> <<template, d.brand.brandName, d.brand.industry, d.brand.logo>>,
      assets |-> IF d.brand.logo = NoLogo THEN <<>> ELSE <<d.brand.logo>>]

\* etag.ts hashContent: sha256 of the serialized config
hashContent(content) == <<"sha256", content>>

\* etag.ts generateConfigETag: W/"{configId}:{hash of JSON.stringify(config)}"
generateConfigETag(configJson) ==
  <<configJson.configId, hashContent(configJson)>>

\* ------------------------------------------------------ relational store
\* ProjectRepositoryPostgres.findProjectByDraftId: rows of committed
\* transactions only (READ COMMITTED)
findProjectByDraftIdBlind(table, draftId) == {}

findProjectByDraftId(table, draftId) == {p \in table : p.draftId = draftId}

\* ProjectRepositoryPostgres.getProjectConfig
getProjectConfig(table, projectId) == {c \in table : c.projectId = projectId}

\* CONSTRAINT projects_draft_id_unique UNIQUE (draft_id)
NoUniqueConstraint(table, row) == FALSE

UniqueViolation(table, row) == \E p \in table : p.draftId = row.draftId

\* rows of table visible to other sessions after a statement of an open
\* transaction has inserted row: none of it before COMMIT
AutoCommitInsert(table, row) == table \cup {row}

TxInsert(table, row) == table

\* ------------------------------------------------------------------- HTTP
\* DraftController.handleError
handleError(e) ==
  CASE e = "DraftNotFoundError" -> [http |-> 404, body |-> "DraftNotFound"]
    [] e = "DraftExpiredError"  -> [http |-> 410, body |-> "DraftExpired"]
    [] e = "CommitLockError"    -> [http |-> 409, body |-> "CommitInProgress"]
    [] e = "UnauthorizedError"  -> [http |-> 401, body |-> "Unauthorized"]
    [] e = "ZodError"           -> [http |-> 400, body |-> "InvalidInput"]
    [] OTHER                    -> [http |-> 500, body |-> "InternalServerError"]

ErrorResp(e) ==
  [http |-> handleError(e).http, body |-> handleError(e).body,
   projectId |-> NoId, configId |-> NoId]

\* DraftController.commitDraft: 200 for ALREADY_COMMITTED, 201 for MIGRATED
CommitResp(status, projectId, configId) ==
  [http |-> IF status = "ALREADY_COMMITTED" THEN 200 ELSE 201,
   body |-> status, projectId |-> projectId, configId |-> configId]

InFlight(r) == pc[r] \notin {"idle", "done"}
Migrated(r) == resp[r].http # 0 /\ resp[r].body = "MIGRATED"


AnyMigrated == \E r \in Req : Migrated(r)

NoOp == [pc |-> "idle", val |-> Absent]
NoOut == [fn |-> "none"]
NoWatch == [on |-> FALSE, dirty |-> FALSE]
\* the connection's WATCH after a command wrote the draft key
Touch == IF watch.on THEN [on |-> TRUE, dirty |-> TRUE] ELSE watch

\* ------------------------------------------------------------------- Init
Init ==
  /\ now = 0
  /\ redisDraft = Absent
  /\ redisLock = Absent
  /\ projects = {}
  /\ project_configs = {}
  /\ tx = [r \in Req |-> NoTx]
  /\ pc = [r \in Req |-> "idle"]
  /\ err = [r \in Req |-> "none"]
  /\ loaded = [r \in Req |-> "none"]
  /\ resp = [r \in Req |-> [http |-> 0, body |-> "none", projectId |-> NoId, configId |-> NoId]]
  /\ created = FALSE
  /\ upd = [u \in Upd |-> NoOp]
  /\ prev = NoOp
  /\ opResp = [op |-> "none", http |-> 0]
  /\ etagSent = [http |-> 0]
  /\ serial = (Profile("none", "none", NoLogo))
  /\ aux = [r \in Req |-> [overlap |-> FALSE, afterMigrated |-> FALSE, startLive |-> FALSE, loadSaw |-> "none", hitUnique |-> FALSE, changedDraft |-> FALSE, retried |-> FALSE]]
  /\ lapsed = [draft |-> FALSE, lock |-> FALSE]
  /\ arg = [fn |-> "none"]
  /\ out = NoOut
  /\ watch = NoWatch

\* ------------------------------------------------------------------ clock
\* Time passes; Redis drops the keys whose deadline is reached.
Tick ==
  /\ now + TimeUnit <= MaxTime
  /\ now' = now + TimeUnit
  /\ redisDraft' = Expire(redisDraft, now')
  /\ redisLock' = Expire(redisLock, now')
  /\ lapsed' = [draft |-> lapsed.draft \/ (redisDraft.present /\ ~redisDraft'.present),
                lock |-> lapsed.lock \/ (/\ redisLock.present
                                         /\ ~redisLock'.present
                                         /\ InFlight(redisLock.val))]
  /\ watch' = IF redisDraft.present /\ ~redisDraft'.present THEN Touch ELSE watch
  /\ UNCHANGED <<arg, out, etagSent, serial, projects, project_configs, tx, pc, err, loaded, resp,
                 created, upd, prev, opResp, aux>>

\* ------------------------------------------------------ draft operations
\* CreateDraftUseCase.execute: DraftId.generate() never repeats an id, so
\* the followed id is created at most once.
CreateDraft(b) ==
  /\ ~created
  /\ created' = TRUE
  /\ redisDraft' = SetNX(redisDraft, NewDraft(b, now),
                         TtlOf(NewDraft(b, now), now), now)
  /\ serial' = b
  /\ UNCHANGED <<watch, arg, out, etagSent, lapsed, now, redisLock, projects, project_configs, tx, pc, err,
                 loaded, resp, upd, prev, opResp, aux>>

\* outcome of the checks every handler makes on the value findById returned
LoadOutcome(k, t) ==
  IF ~k.present THEN "DraftNotFoundError"
  ELSE IF isExpired(k.val, t) THEN "DraftExpiredError"
  ELSE "ok"

\* the response a draft handler sends for a load outcome
DraftResp(op, o) ==
  [op |-> op, http |-> IF o = "ok" THEN 200 ELSE handleError(o).http]

\* GetDraftUseCase.execute: findById(draftId, false)
GetDraft ==
  /\ redisDraft' = RefreshOnRead(redisDraft, FALSE,
                       IF redisDraft.present THEN redisDraft.val.ttlSeconds ELSE 0, now)
  /\ opResp' = DraftResp("GetDraft", LoadOutcome(redisDraft, now))
  /\ UNCHANGED <<watch, arg, out, etagSent, serial, lapsed, now, redisLock, projects, project_configs, tx, pc, err,
                 loaded, resp, created, upd, prev, aux>>

\* UpdateDraftUseCase.execute, up to the write: findById(draftId, false).
\* The slots are interchangeable: a request takes the lowest free one.
UpdateRead(u) ==
  /\ upd[u].pc = "idle"
  /\ \A v \in 1..(u - 1) : upd[v].pc # "idle"
  /\ redisDraft' = RefreshOnRead(redisDraft, FALSE,
                       IF redisDraft.present THEN redisDraft.val.ttlSeconds ELSE 0, now)
  /\ IF LoadOutcome(redisDraft, now) = "ok"
     THEN /\ upd' = [upd EXCEPT ![u] = [pc |-> "write", val |-> redisDraft.val]]
          /\ UNCHANGED opResp
     ELSE /\ opResp' = DraftResp("Update", LoadOutcome(redisDraft, now))
          /\ UNCHANGED upd
  /\ UNCHANGED <<watch, arg, out, etagSent, serial, lapsed, now, redisLock, projects, project_configs,
                 tx, pc, err, loaded, resp, created, prev, aux>>

\* UpdateDraftUseCase.execute, the write, for the request body p: "Apply
\* updates" (a throw answers 500 and writes nothing), draft.update(profile)
\* and draftRepository.update (SET ... XX); a failed SET throws a plain Error
UpdateWrite(u, p) ==
  /\ upd[u].pc = "write"
  /\ IF PatchThrows(p)
     THEN /\ opResp' = DraftResp("Update", "TypeError")
          /\ UNCHANGED <<redisDraft, serial, etagSent>>
     ELSE LET d == DraftUpdate(upd[u].val, ApplyPatch(upd[u].val.brand, p), now)
          IN /\ redisDraft' = SetXX(redisDraft, d, TtlOf(d, now), now)
             /\ opResp' = DraftResp("Update",
                             IF redisDraft.present THEN "ok" ELSE "Error")
             /\ serial' = IF redisDraft.present THEN ApplyPatch(serial, p)
                          ELSE serial
             /\ etagSent' = IF redisDraft.present /\ etagSent.http # 0
                            THEN [etagSent EXCEPT !.dirty = TRUE] ELSE etagSent
  /\ upd' = [upd EXCEPT ![u] = NoOp]
  /\ watch' = IF ~PatchThrows(p) /\ redisDraft.present THEN Touch ELSE watch
  /\ UNCHANGED <<arg, out, lapsed, now, redisLock, projects, project_configs, tx, pc, err,
                 loaded, resp, created, prev, aux>>

\* GetPreviewUseCase.execute, the GET of findById(draftId, true)
PreviewGet ==
  /\ prev.pc = "idle"
  /\ IF redisDraft.present
     THEN /\ prev' = [pc |-> "refresh", val |-> redisDraft.val]
          /\ UNCHANGED opResp
     ELSE /\ opResp' = DraftResp("Preview", "DraftNotFoundError")
          /\ UNCHANGED prev
  /\ UNCHANGED <<watch, arg, out, etagSent, serial, lapsed, now, redisDraft, redisLock, projects, project_configs, tx,
                 pc, err, loaded, resp, created, upd, aux>>

\* GetPreviewUseCase.execute, the EXPIRE of findById(draftId, true), then the
\* isExpired check, generation and rendering
PreviewRefresh ==
  /\ prev.pc = "refresh"
  /\ redisDraft' = RefreshOnRead(redisDraft, TRUE, prev.val.ttlSeconds, now)
  /\ opResp' = DraftResp("Preview",
                  IF isExpired(prev.val, now) THEN "DraftExpiredError" ELSE "ok")
  /\ prev' = NoOp
  /\ UNCHANGED <<watch, arg, out, etagSent, serial, lapsed, now, redisLock, projects, project_configs, tx, pc, err,
                 loaded, resp, created, upd, aux>>

\* the If-None-Match header of a preview request: the ETag last received
\* when the request is conditional, none otherwise
IfNoneMatch(conditional) ==
  IF conditional /\ etagSent.http # 0 THEN etagSent.etag ELSE <<>>

\* DraftController.getPreview from the EXPIRE of findById(draftId, true) on,
\* with the response's ETag header followed: the isExpired check, generate,
\* render (which computes the ETag) and the comparison with the request's
\* If-None-Match header.  The config id differs from the one of the
\* response followed so far.
GetPreview(conditional) ==
  /\ prev.pc = "refresh"
  /\ redisDraft' = RefreshOnRead(redisDraft, TRUE, prev.val.ttlSeconds, now)
  /\ prev' = NoOp
  /\ IF isExpired(prev.val, now)
     THEN /\ opResp' = DraftResp("Preview", "DraftExpiredError")
          /\ UNCHANGED etagSent
     ELSE \E id \in CfgIds :
            /\ etagSent.http # 0 => id # etagSent.config.configId
            /\ LET config == generate(prev.val, id, now)
                   etag == generateConfigETag(config)
                   code == IF IfNoneMatch(conditional) = etag THEN 304 ELSE 200
               IN /\ opResp' = [op |-> "Preview", http |-> code]
                  /\ etagSent' =
                       [http |-> code, etag |-> etag, config |-> config,
                        of |-> prev.val, dirty |-> FALSE,
                        again |-> etagSent.http # 0 /\ etagSent.of = prev.val]
  /\ UNCHANGED <<watch, arg, out, serial, lapsed, now, redisLock, projects, project_configs, tx, pc,
                 err, loaded, resp, created, upd, aux>>

\* ------------------------------------------------- CommitDraftUseCase.execute
\* Requests are numbered in the order in which they arrive.
\* Step 1: acquireLock, SET lock:commit:{id} 1 EX 30 NX.  The stored value is
\* the constant "1"; the model labels it with the request that set it.
CommitAcquireLock(r) ==
  /\ pc[r] = "idle"
  /\ IF r = 1 THEN TRUE ELSE pc[r - 1] # "idle"
  /\ redisLock' = SetNX(redisLock, r, commitLockTtl, now)
  /\ pc' = [pc EXCEPT ![r] = IF redisLock.present THEN "catch" ELSE "check"]
  /\ err' = [err EXCEPT ![r] = IF redisLock.present THEN "CommitLockError" ELSE "none"]
  /\ aux' = [q \in Req |->
        IF q = r THEN [aux[q] EXCEPT !.overlap = \E o \in Req : InFlight(o),
                                     !.afterMigrated = AnyMigrated,
                                     !.startLive = redisDraft.present]
        ELSE IF InFlight(q) THEN [aux[q] EXCEPT !.overlap = TRUE]
        ELSE aux[q]]
  /\ UNCHANGED <<watch, arg, out, etagSent, serial, lapsed, now, redisDraft, projects, project_configs, tx, loaded, resp,
                 created, upd, prev, opResp>>

\* Step 2: findProjectByDraftId and, if a project exists, getProjectConfig and
\* return ALREADY_COMMITTED.  The two rows are written by one transaction
\* and never change, so the two reads are taken together.
CommitCheckIdempotency(r) ==
  /\ pc[r] = "check"
  /\ LET existing == findProjectByDraftId(projects, TheDraftId)
     IN IF existing # {}
        THEN LET p == CHOOSE x \in existing : TRUE
                 cs == getProjectConfig(project_configs, p.projectId)
                 cid == IF cs = {} THEN NoId ELSE (CHOOSE c \in cs : TRUE).configId
             IN /\ resp' = [resp EXCEPT ![r] =
                              CommitResp("ALREADY_COMMITTED", p.projectId, cid)]
                /\ pc' = [pc EXCEPT ![r] = "done"]
        ELSE /\ pc' = [pc EXCEPT ![r] = "load"]
             /\ UNCHANGED resp
  /\ UNCHANGED <<watch, arg, out, etagSent, serial, lapsed, now, redisDraft, redisLock, projects, project_configs, tx,
                 err, loaded, created, upd, prev, opResp, aux>>

\* Steps 3-4: draftRepository.findById(draftId, false), the absent / expired
\* checks, configGenerator.generate, Project.fromDraft and
\* ProjectConfig.fromSiteConfig
CommitLoadDraft(r) ==
  /\ pc[r] = "load"
  /\ redisDraft' = RefreshOnRead(redisDraft, FALSE,
                       IF redisDraft.present THEN redisDraft.val.ttlSeconds ELSE 0, now)
  /\ LET o == LoadOutcome(redisDraft, now)
     IN /\ pc' = [pc EXCEPT ![r] = IF o = "ok" THEN "insertProject" ELSE "catch"]
        /\ err' = [err EXCEPT ![r] = IF o = "ok" THEN "none" ELSE o]
        /\ loaded' = [loaded EXCEPT ![r] =
                         IF o = "ok" THEN redisDraft.val.brand ELSE "none"]
        /\ aux' = [aux EXCEPT ![r].loadSaw = o,
                              ![r].changedDraft = (redisDraft' # redisDraft)]
  /\ UNCHANGED <<watch, arg, out, etagSent, serial, lapsed, now, redisLock, projects, project_configs, tx, resp, created,
                 upd, prev, opResp>>

\* Step 5, createProjectWithConfig: BEGIN and INSERT INTO projects.  The
\* insert waits while another open transaction holds an uncommitted row with
\* the same draft_id; against a committed one it fails with 23505, the
\* transaction is rolled back and a plain Error is thrown.
TxInsertProject(r) ==
  /\ pc[r] = "insertProject"
  /\ \A o \in Req \ {r} : tx[o].project = {}
  /\ IF UniqueViolation(projects, NewProject(r))
     THEN /\ pc' = [pc EXCEPT ![r] = "catch"]
          /\ err' = [err EXCEPT ![r] = "Error"]
          /\ aux' = [aux EXCEPT ![r].hitUnique = TRUE]
          /\ UNCHANGED <<tx, projects>>
     ELSE /\ pc' = [pc EXCEPT ![r] = "insertConfig"]
          /\ tx' = [tx EXCEPT ![r].project = {NewProject(r)}]
          /\ projects' = TxInsert(projects, NewProject(r))
          /\ UNCHANGED <<err, aux>>
  /\ UNCHANGED <<watch, arg, out, etagSent, serial, lapsed, now, redisDraft, redisLock, project_configs, loaded, resp,
                 created, upd, prev, opResp>>

\* Step 5, createProjectWithConfig: INSERT INTO project_configs
TxInsertConfig(r) ==
  /\ pc[r] = "insertConfig"
  /\ pc' = [pc EXCEPT ![r] = "txCommit"]
  /\ tx' = [tx EXCEPT ![r].config = {NewProjectConfig(r, loaded[r])}]
  /\ project_configs' = TxInsert(project_configs, NewProjectConfig(r, loaded[r]))
  /\ UNCHANGED <<watch, arg, out, etagSent, serial, lapsed, now, redisDraft, redisLock, projects, err, loaded, resp,
                 created, upd, prev, opResp, aux>>

\* Step 5, createProjectWithConfig: COMMIT makes both rows visible at once
TxCommit(r) ==
  /\ pc[r] = "txCommit"
  /\ pc' = [pc EXCEPT ![r] = "deleteDraft"]
  /\ projects' = projects \cup tx[r].project
  /\ project_configs' = project_configs \cup tx[r].config
  /\ tx' = [tx EXCEPT ![r] = NoTx]
  /\ UNCHANGED <<watch, arg, out, etagSent, serial, lapsed, now, redisDraft, redisLock, err, loaded, resp, created, upd,
                 prev, opResp, aux>>

\* Step 5 fails (a statement of the transaction throws): ROLLBACK discards
\* the transaction's rows and the error is rethrown.  The error's name tells
\* whether a row had been inserted.
TxFail(r) ==
  /\ pc[r] \in {"insertProject", "insertConfig", "txCommit"}
  /\ pc' = [pc EXCEPT ![r] = "catch"]
  /\ err' = [err EXCEPT ![r] = IF pc[r] = "insertProject" THEN "QueryError"
                                ELSE "QueryErrorAfterInsert"]
  /\ tx' = [tx EXCEPT ![r] = NoTx]
  /\ UNCHANGED <<watch, arg, out, etagSent, serial, lapsed, now, redisDraft, redisLock, projects, project_configs,
                 loaded, resp, created, upd, prev, opResp, aux>>

\* Step 6: draftRepository.delete
CommitDeleteDraft(r) ==
  /\ pc[r] = "deleteDraft"
  /\ pc' = [pc EXCEPT ![r] = "release"]
  /\ redisDraft' = deleteDraft(redisDraft)
  /\ aux' = [aux EXCEPT ![r].changedDraft = (redisDraft' # redisDraft)]
  /\ UNCHANGED <<watch, arg, out, etagSent, serial, lapsed, now, redisLock, projects, project_configs, tx, err,
                 loaded, resp, created, upd, prev, opResp>>

\* Steps 7-8: releaseLock and return MIGRATED with the saved identifiers
CommitReleaseLock(r) ==
  /\ pc[r] = "release"
  /\ pc' = [pc EXCEPT ![r] = "done"]
  /\ redisLock' = releaseLock(redisLock)
  /\ resp' = [resp EXCEPT ![r] =
                 CommitResp("MIGRATED", NewProjectId(r), NewConfigId(r))]
  /\ UNCHANGED <<watch, arg, out, etagSent, serial, lapsed, now, redisDraft, projects, project_configs, tx, err, loaded,
                 created, upd, prev, opResp, aux>>

\* catch block: releaseLock, rethrow; DraftController.handleError answers
CommitCatchRelease(r) ==
  /\ pc[r] = "catch"
  /\ pc' = [pc EXCEPT ![r] = "done"]
  /\ redisLock' = releaseLock(redisLock)
  /\ resp' = [resp EXCEPT ![r] = ErrorResp(err[r])]
  /\ err' = [err EXCEPT ![r] = "none"]
  /\ UNCHANGED <<watch, arg, out, etagSent, serial, lapsed, now, redisDraft, projects, project_configs, tx, loaded,
                 created, upd, prev, opResp, aux>>

\* ------------------------------------------------------------ specifications
Commit(r) ==
  \/ CommitAcquireLock(r)
  \/ CommitCheckIdempotency(r)
  \/ CommitLoadDraft(r)
  \/ TxInsertProject(r)
  \/ TxInsertConfig(r)
  \/ TxCommit(r)
  \/ CommitDeleteDraft(r)
  \/ CommitReleaseLock(r)
  \/ CommitCatchRelease(r)

\* Commit requests and the clock
CommitNext ==
  \/ Tick
  \/ \E b \in Brands : CreateDraft(b)
  \/ \E r \in Req : Commit(r)

\* the commit protocol with a relational store that never fails a statement
Spec == Init /\ [][CommitNext]_vars

\* the commit protocol with a relational store whose statements may fail
SpecTxFail == Init /\ [][CommitNext \/ \E r \in Req : TxFail(r)]_vars


\* draft reads, updates (of the brand name, one at a time) and previews next
\* to at most DraftSpecCommits Commit requests
SpecDraft ==
  /\ Init
  /\ [][
      \/ Tick
      \/ \E b \in Brands : CreateDraft(b)
      \/ GetDraft
      \/ UpdateRead(1)
      \/ UpdateWrite(1, SetName("Zeta"))
      \/ PreviewGet
      \/ PreviewRefresh
      \/ \E r \in 1..DraftSpecCommits : Commit(r) \/ TxFail(r)
     ]_vars


\* concurrent Update requests next to previews
SpecUpdate ==
  /\ Init
  /\ [][
      \/ Tick
      \/ \E b \in Brands : CreateDraft(b)
      \/ \E u \in Upd : UpdateRead(u)
      \/ \E u \in Upd, p \in Patches : UpdateWrite(u, p)
      \/ PreviewGet
      \/ PreviewRefresh
     ]_vars


\* previews whose ETag is followed, next to one Update request at a time
SpecPreview ==
  /\ Init
  /\ [][
      \/ Tick
      \/ \E b \in Brands : CreateDraft(b)
      \/ UpdateRead(1)
      \/ \E p \in NamePatches : UpdateWrite(1, p)
      \/ PreviewGet
      \/ \E conditional \in BOOLEAN : GetPreview(conditional)
     ]_vars

\* ------------------------------------------------------ SafePreviewRenderer
ALLOWED_SECTION_TYPES ==
  {"hero", "features", "about", "contact", "services", "gallery",
   "testimonials", "pricing", "faq", "team", "footer"}

\* a section as the JSON object {id, type, props}
SectionJson(section) ==
  JObj(<< <<"id", JStr(<<section.id>>)>>, <<"type", JStr(<<section.type>>)>>,
          <<"props", section.props>> >>)

\* isSectionAllowed that lets every type through
allowAnySection(section) == TRUE

\* SafePreviewRenderer.isSectionAllowed
isSectionAllowed(section) == section.type \in ALLOWED_SECTION_TYPES

\* SafePreviewRenderer.sanitizeSection: err is the error thrown, val the
\* section returned otherwise
sanitizeSection(section) ==
  IF containsUnsafeContent(stringify(SectionJson(section)))
  THEN [err |-> "Error", val |-> section]
  ELSE [err |-> "none",
        val |-> [section EXCEPT !.props = escapeHtmlInObject(section.props)]]

\* props.name || '' for a text property
Text(props, name) ==
  IF Get(props, name).k = "str" THEN Get(props, name).v ELSE <<>>

\* the link of renderHeroSection for a call-to-action, nothing when absent
CtaHtml(cta) ==
  IF cta.k = "obj"
  THEN <<"<a href=\"">> \o escapeHtml(Text(cta, "href"))
         \o <<"\" class=\"cta-button\">">> \o escapeHtml(Text(cta, "text"))
         \o <<"</a>">>
  ELSE <<>>

\* SafePreviewRenderer.renderHeroSection
renderHeroSection(props, brand) ==
  <<"<section class=\"hero\">">>
    \o (IF LogoUrl(brand.logo) # <<>>
        THEN <<"<img src=\"">> \o escapeHtml(LogoUrl(brand.logo)) \o <<"\" alt=\"Logo\">">>
        ELSE <<>>)
    \o <<"<h1>">> \o escapeHtml(Text(props, "headline")) \o <<"</h1>">>
    \o <<"<p>">> \o escapeHtml(Text(props, "subheadline")) \o <<"</p>">>
    \o CtaHtml(Get(props, "primaryCta")) \o CtaHtml(Get(props, "secondaryCta"))
    \o <<"</section>">>

\* one card of renderFeaturesSection
RECURSIVE ItemsHtml(_)
ItemsHtml(items) ==
  IF items = <<>> THEN <<>>
  ELSE <<"<div class=\"feature-card\">", "<h3>">>
         \o escapeHtml(Text(Head(items), "title")) \o <<"</h3>", "<p>">>
         \o escapeHtml(IF Text(Head(items), "text") # <<>>
                       THEN Text(Head(items), "text")
                       ELSE Text(Head(items), "description"))
         \o <<"</p>", "</div>">> \o ItemsHtml(Tail(items))

\* SafePreviewRenderer.renderFeaturesSection
renderFeaturesSection(props) ==
  <<"<section class=\"section\">", "<h2 class=\"section-title\">">>
    \o escapeHtml(Text(props, "title")) \o <<"</h2>", "<div class=\"features-grid\">">>
    \o ItemsHtml(IF Get(props, "items").k = "arr" THEN Get(props, "items").v ELSE <<>>)
    \o <<"</div>", "</section>">>

\* SafePreviewRenderer.renderAboutSection
renderAboutSection(props) ==
  <<"<section class=\"section about\">", "<h2 class=\"section-title\">">>
    \o escapeHtml(Text(props, "title")) \o <<"</h2>", "<p>">>
    \o escapeHtml(IF Text(props, "text") # <<>> THEN Text(props, "text")
                  ELSE Text(props, "body"))
    \o <<"</p>", "</section>">>

\* SafePreviewRenderer.renderContactSection
renderContactSection(props) ==
  <<"<section class=\"section contact\">", "<h2 class=\"section-title\">">>
    \o escapeHtml(Text(props, "title")) \o <<"</h2>", "<p class=\"contact-subtitle\">">>
    \o escapeHtml(Text(props, "subtitle")) \o <<"</p>", "</section>">>

\* SafePreviewRenderer.renderFooterSection
renderFooterSection(props) ==
  <<"<footer>", "<p>">> \o escapeHtml(Text(props, "copyright"))
    \o <<"</p>", "</footer>">>

\* SafePreviewRenderer.renderSection: the builders get the props that
\* sanitizeSection returned
renderSection(section, brand) ==
  LET safeSection == sanitizeSection(section)
      props == safeSection.val.props
  IN [err |-> safeSection.err,
      val |-> CASE section.type = "hero" -> renderHeroSection(props, brand)
                [] section.type \in {"features", "services"} ->
                     renderFeaturesSection(props)
                [] section.type = "about" -> renderAboutSection(props)
                [] section.type = "contact" -> renderContactSection(props)
                [] section.type = "footer" -> renderFooterSection(props)
                [] OTHER -> <<>>]

\* the first error thrown while the results are computed in order
RECURSIVE FirstErr(_)
FirstErr(results) ==
  IF results = <<>> THEN "none"
  ELSE IF Head(results).err # "none" THEN Head(results).err
  ELSE FirstErr(Tail(results))

\* SafePreviewRenderer.renderJsonPreview
renderJsonPreview(configJson) ==
  LET Sane(page) ==
        LET kept == SelectSeq(page.sections, isSectionAllowed)
        IN [i \in 1..Len(kept) |-> sanitizeSection(kept[i])]
      errs == [p \in 1..Len(configJson.pages) |->
                 [err |-> FirstErr(Sane(configJson.pages[p]))]]
  IN [err |-> FirstErr(errs), type |-> "json",
      val |-> [brand |-> configJson.brand, theme |-> configJson.theme,
               pages |-> [p \in 1..Len(configJson.pages) |->
                            [id |-> configJson.pages[p].id,
                             sections |->
                               [i \in 1..Len(Sane(configJson.pages[p])) |->
                                  Sane(configJson.pages[p])[i].val]]]]]

\* SafePreviewRenderer.buildHtmlDocument: the page with id home, else the
\* first page; the style block is fixed by the theme
buildHtmlDocument(brand, theme, pages) ==
  LET homePage == IF \E p \in 1..Len(pages) : pages[p].id = "home"
                  THEN pages[CHOOSE p \in 1..Len(pages) :
                               /\ pages[p].id = "home"
                               /\ \A q \in 1..(p - 1) : pages[q].id # "home"]
                  ELSE pages[1]
      kept == SelectSeq(homePage.sections, isSectionAllowed)
      parts == [i \in 1..Len(kept) |-> renderSection(kept[i], brand)]
  IN [err |-> FirstErr(parts), type |-> "html",
      val |-> <<"<!DOCTYPE html>", "<head>", "<title>">> \o escapeHtml(brand.name)
                \o <<"</title>", "<style>", theme, "</style>", "</head>", "<body>">>
                \o Join([i \in 1..Len(parts) |-> parts[i].val], <<"\n">>)
                \o <<"</body>">>]

\* SafePreviewRenderer.render with the built-in renderer (no FrappeAdapter)
render(configJson, format) ==
  IF format = "json" THEN renderJsonPreview(configJson)
  ELSE buildHtmlDocument(configJson.brand, configJson.theme, configJson.pages)

\* DraftController.getPreview after the use case returned or threw: the
\* reply sent for a preview result
PreviewReply(result) ==
  IF result.err = "none"
  THEN [http |-> 200, body |-> "preview", type |-> result.type, val |-> result.val]
  ELSE [http |-> handleError(result.err).http, body |-> handleError(result.err).body,
        type |-> "none", val |-> <<>>]

\* --------------------------------------------- the renderer on its own
\* strings handed to the functions under study
AmpName == <<"A", "&", "B">>
ScriptText ==
  <<"<", "S", "c", "r", "i", "p", "t", ">", "x", "<", "/", "s", "c", "r", "i",
    "p", "t", ">">>

\* sections a config can hold: the types of the templates with plain and
\* with special characters, a whitelisted type without a builder, and a
\* type outside the whitelist
SectionPool ==
  { [id |-> "hero_1", type |-> "hero",
     props |-> JObj(<< <<"headline", JStr(Acme)>>,
                       <<"primaryCta", JObj(<< <<"text", JStr(Acme)>>,
                                               <<"href", JStr(<<"#">>)>> >>)>>,
                       <<"logoAssetId", JNull>> >>)],
    [id |-> "hero_1", type |-> "hero",
     props |-> JObj(<< <<"headline", JStr(AmpName)>> >>)],
    [id |-> "hero_1", type |-> "hero",
     props |-> JObj(<< <<"headline", JStr(ScriptText)>> >>)],
    [id |-> "services_1", type |-> "features",
     props |-> JObj(<< <<"title", JStr(Acme)>>,
                       <<"items", JArr(<< JObj(<< <<"title",
                                                    JStr(<<"A", "<", "B", "'", "s">>)>>,
                                                  <<"text", JStr(Acme)>> >>) >>)>> >>)],
    [id |-> "about_1", type |-> "about",
     props |-> JObj(<< <<"title", JStr(Acme)>>,
                       <<"text", JStr(<<"o", "n", "e", " ", "=", "1">>)>> >>)],
    [id |-> "gallery_1", type |-> "gallery",
     props |-> JObj(<< <<"images",
                         JArr(<< JStr(<<"j", "a", "v", "a", "s", "c", "r", "i",
                                        "p", "t", ":", "x">>) >>)>> >>)],
    [id |-> "gallery_2", type |-> "gallery",
     props |-> JObj(<< <<"images", JArr(<< JStr(AmpName) >>)>> >>)],
    [id |-> "widget_1", type |-> "widget",
     props |-> JObj(<< <<"html", JStr(ScriptText)>> >>)] }


\* configs with a home page, and configs whose home page comes second
Configs ==
  {[brand |-> [name |-> AmpName, logo |-> NoLogo], theme |-> "default_default",
    pages |-> << [id |-> "home", sections |-> ss] >>] : ss \in (UNION {[1..n -> SectionPool] : n \in 0..MaxSections})}
  \cup
  {[brand |-> [name |-> AmpName, logo |-> NoLogo], theme |-> "default_default",
    pages |-> << [id |-> "services", sections |-> <<s>>],
                 [id |-> "home", sections |-> <<t>>] >>] :
     s \in SectionPool, t \in SectionPool}

\* the store and the requests stay as Init leaves them
Idle ==
  UNCHANGED <<watch, now, redisDraft, redisLock, projects, project_configs, tx, pc,
              err, loaded, resp, created, upd, prev, opResp, etagSent, serial,
              aux, lapsed>>

InitRender ==
  /\ Init!1 /\ Init!2 /\ Init!3 /\ Init!4 /\ Init!5 /\ Init!6 /\ Init!7
  /\ Init!8 /\ Init!9 /\ Init!10 /\ Init!11 /\ Init!12 /\ Init!13 /\ Init!14
  /\ Init!15 /\ Init!16 /\ Init!17 /\ Init!18
  /\ arg \in {[fn |-> "render", config |-> c] : c \in Configs}
  /\ out = NoOut
  /\ watch = NoWatch

\* GET /drafts/{id}/preview?type=html for the config generated
RenderHtml ==
  /\ arg.fn = "render"
  /\ out' = [fn |-> "render", format |-> "html",
             reply |-> PreviewReply(render(arg.config, "html"))]
  /\ UNCHANGED arg
  /\ Idle

\* GET /drafts/{id}/preview?type=json for the config generated
RenderJson ==
  /\ arg.fn = "render"
  /\ out' = [fn |-> "render", format |-> "json",
             reply |-> PreviewReply(render(arg.config, "json"))]
  /\ UNCHANGED arg
  /\ Idle


SpecRender ==
  /\ InitRender
  /\ [][
      \/ RenderHtml
      \/ RenderJson
     ]_vars

\* ------------------------------------- brand names from request to preview
\* industrySchema: the codes z.enum accepts
IndustryCodes ==
  {"tech", "finance", "healthcare", "retail", "education", "real-estate",
   "consulting", "restaurant", "other"}

\* createDraftRequestSchema / updateDraftRequestSchema on a brand name:
\* z.string().min(1).max(100)
brandNameSchema(brandName) == Len(brandName) >= 1 /\ Len(brandName) <= MAX_LENGTH

\* BrandName.create: the name trimmed; validate throws on a length outside
\* 1..100
BrandNameCreate(name) ==
  [err |-> IF Len(Trim(name)) < 1 \/ Len(Trim(name)) > MAX_LENGTH
           THEN "Error" ELSE "none",
   val |-> Trim(name)]

\* SiteConfig.toJSON of what generate returns for a brand profile: the
\* fields the renderer reads
generatedJson(brand) ==
  [brand |-> [name |-> tokenContext(brand).brandName, industry |-> brand.industry,
              slug |-> tokenContext(brand).slug, logo |-> brand.logo],
   theme |-> IF load(getByIndustry(brand.industry)) = "it_services"
             THEN "it_services_default" ELSE "default_default",
   pages |-> generatePages(TEMPLATES(load(getByIndustry(brand.industry))),
                           tokenContext(brand), brand.logo)]

ScriptName ==
  <<"T", "<", "s", "c", "r", "i", "p", "t", ">", "x", "<", "/", "s", "c", "r",
    "i", "p", "t", ">", "C">>
\* brand names a client sends
RawNames ==
  {Acme, AmpName, ScriptName,
   <<" ", "A", "NUL", " ", " ", "TAB", "B", " ">>,
   <<"NUL", " ", "A">>, <<"NUL">>, <<" ">>, <<>>,
   [i \in 1..(MAX_LENGTH + 1) |-> "a"]}


\* DraftController.createDraft, the whole request: schema, BrandProfile.create,
\* save
PostDraft(brandName, code) ==
  /\ ~created
  /\ arg' = [fn |-> "createDraft", brandName |-> brandName, code |-> code]
  /\ IF ~brandNameSchema(brandName) \/ code \notin IndustryCodes
     THEN /\ out' = [fn |-> "createDraft", reply |-> handleError("ZodError")]
          /\ UNCHANGED <<redisDraft, created>>
     ELSE IF BrandNameCreate(brandName).err # "none"
     THEN /\ out' = [fn |-> "createDraft",
                     reply |-> handleError(BrandNameCreate(brandName).err)]
          /\ UNCHANGED <<redisDraft, created>>
     ELSE LET d == NewDraft(Profile(BrandNameCreate(brandName).val, code, NoLogo), now)
          IN /\ redisDraft' = SetNX(redisDraft, d, TtlOf(d, now), now)
             /\ created' = TRUE
             /\ out' = [fn |-> "createDraft", reply |-> [http |-> 201, body |-> "DRAFT"]]
  /\ UNCHANGED <<watch, now, redisLock, projects, project_configs, tx, pc, err, loaded,
                 resp, upd, prev, opResp, etagSent, serial, aux, lapsed>>

\* DraftController.updateDraft with the body {brandName}, the whole request
PatchName(brandName) ==
  /\ arg' = [fn |-> "updateDraft", brandName |-> brandName, code |-> "unset"]
  /\ IF ~brandNameSchema(brandName)
     THEN /\ out' = [fn |-> "updateDraft", reply |-> handleError("ZodError")]
          /\ UNCHANGED redisDraft
     ELSE IF LoadOutcome(redisDraft, now) # "ok"
     THEN /\ out' = [fn |-> "updateDraft",
                     reply |-> handleError(LoadOutcome(redisDraft, now))]
          /\ UNCHANGED redisDraft
     ELSE IF BrandNameCreate(brandName).err # "none"
     THEN /\ out' = [fn |-> "updateDraft",
                     reply |-> handleError(BrandNameCreate(brandName).err)]
          /\ UNCHANGED redisDraft
     ELSE LET d == DraftUpdate(redisDraft.val,
                               [redisDraft.val.brand EXCEPT
                                  !.brandName = BrandNameCreate(brandName).val],
                               now)
          IN /\ redisDraft' = SetXX(redisDraft, d, TtlOf(d, now), now)
             /\ out' = [fn |-> "updateDraft", reply |-> [http |-> 200, body |-> "DRAFT"]]
  /\ UNCHANGED <<watch, now, redisLock, projects, project_configs, tx, pc, err, loaded,
                 resp, created, upd, prev, opResp, etagSent, serial, aux, lapsed>>

\* DraftController.updateDraft with the body {industry: {code}}, the whole
\* request
PatchIndustry(code) ==
  /\ arg' = [fn |-> "updateDraft", brandName |-> <<"unset">>, code |-> code]
  /\ IF code \notin IndustryCodes
     THEN /\ out' = [fn |-> "updateDraft", reply |-> handleError("ZodError")]
          /\ UNCHANGED redisDraft
     ELSE IF LoadOutcome(redisDraft, now) # "ok"
     THEN /\ out' = [fn |-> "updateDraft",
                     reply |-> handleError(LoadOutcome(redisDraft, now))]
          /\ UNCHANGED redisDraft
     ELSE LET d == DraftUpdate(redisDraft.val,
                               [redisDraft.val.brand EXCEPT !.industry = code], now)
          IN /\ redisDraft' = SetXX(redisDraft, d, TtlOf(d, now), now)
             /\ out' = [fn |-> "updateDraft", reply |-> [http |-> 200, body |-> "DRAFT"]]
  /\ UNCHANGED <<watch, now, redisLock, projects, project_configs, tx, pc, err, loaded,
                 resp, created, upd, prev, opResp, etagSent, serial, aux, lapsed>>

\* DraftController.getPreview, the whole request: findById(id, true),
\* generate, render, reply
PreviewDraft(format) ==
  /\ arg' = [fn |-> "getPreview", brandName |-> <<"unset">>, code |-> format]
  /\ redisDraft' = RefreshOnRead(redisDraft, TRUE,
                       IF redisDraft.present THEN redisDraft.val.ttlSeconds ELSE 0, now)
  /\ IF LoadOutcome(redisDraft, now) # "ok"
     THEN out' = [fn |-> "getPreview",
                  reply |-> handleError(LoadOutcome(redisDraft, now))]
     ELSE out' = [fn |-> "getPreview",
                  brand |-> generatedJson(redisDraft.val.brand).brand,
                  reply |-> PreviewReply(render(generatedJson(redisDraft.val.brand),
                                                format))]
  /\ UNCHANGED <<watch, now, redisLock, projects, project_configs, tx, pc, err, loaded,
                 resp, created, upd, prev, opResp, etagSent, serial, aux, lapsed>>


SpecBrand ==
  /\ Init
  /\ [][
      \/ \E brandName \in RawNames, code \in {"tech", "other", "unknown"} :
           PostDraft(brandName, code)
      \/ \E brandName \in RawNames : PatchName(brandName)
      \/ \E code \in {"tech", "other", "unknown"} : PatchIndustry(code)
      \/ \E format \in {"html", "json"} : PreviewDraft(format)
     ]_vars

\* --------------------------------------------- token resolution on its own

\* the section templates of the two shipped templates, and section
\* templates with props of other shapes
SectionTemplates ==
  {ITServicesTemplate.pages[1].sections[i] :
     i \in 1..Len(ITServicesTemplate.pages[1].sections)}
  \cup {DefaultTemplate.pages[1].sections[i] :
          i \in 1..Len(DefaultTemplate.pages[1].sections)}
  \cup {[id |-> "extra_1", type |-> "hero", props |-> p] :
          p \in {JObj(<< <<"tags", JArr(<<JStr(TokBrandName), JStr(<<"x">>)>>)>> >>),
                 JObj(<< <<"rows", JArr(<<JArr(<<JStr(TokSlug)>>)>>)>> >>),
                 JObj(<< <<"headline", JStr(TokBrandName \o <<" ">> \o TokBrandName)>>,
                         <<"link", JStr(<<"/">> \o TokSlug)>>,
                         <<"logo", JStr(TokLogoUrl)>> >>),
                 JObj(<< <<"media",
                           JObj(<< <<"logoAssetId", JStr(TokLogoAssetId)>> >>)>> >>),
                 JObj(<< <<"icon", JStr(TokLogoAssetId)>> >>),
                 JObj(<< <<"src", JStr(<<"i", "d", ":">> \o TokLogoAssetId)>>,
                         <<"logoAssetId", JStr(TokLogoAssetId)>> >>),
                 JObj(<< <<"cards",
                           JArr(<<JObj(<< <<"title", JStr(TokBrandName)>>,
                                          <<"logoAssetId",
                                            JStr(TokLogoAssetId)>> >>)>>)>> >>),
                 JObj(<< <<"items", JArr(<<JNull>>)>> >>)}}

\* brand profiles as they reach the generator
TokenBrands ==
  {Profile(n, "tech", l) :
     n \in {Acme, AmpName, TokSlug, <<"A", "$", "&", "B">>, <<"A", "$", "$", "B">>},
     l \in {NoLogo, "logoA"}}

InitTokens ==
  /\ Init!1 /\ Init!2 /\ Init!3 /\ Init!4 /\ Init!5 /\ Init!6 /\ Init!7 /\ Init!8
  /\ Init!9 /\ Init!10 /\ Init!11 /\ Init!12 /\ Init!13 /\ Init!14 /\ Init!15
  /\ Init!16 /\ Init!17 /\ Init!18
  /\ \E s \in SectionTemplates, b \in TokenBrands :
       arg = [fn |-> "section", template |-> s, context |-> tokenContext(b),
              logo |-> b.logo]
  /\ out = NoOut
  /\ watch = NoWatch

\* resolveSectionProps applied to the props of the section template
ResolveProps ==
  /\ arg.fn = "section"
  /\ out' = IF resolveThrows(arg.template.props)
            THEN [fn |-> "resolveSectionProps", err |-> "TypeError"]
            ELSE [fn |-> "resolveSectionProps", err |-> "none",
                  val |-> resolveSectionProps(arg.template.props, arg.context)]
  /\ UNCHANGED arg
  /\ Idle

\* the section generate makes of the section template
GenerateSection ==
  /\ arg.fn = "section"
  /\ out' = IF resolveThrows(arg.template.props)
            THEN [fn |-> "generateSection", err |-> "TypeError"]
            ELSE [fn |-> "generateSection", err |-> "none",
                  val |-> generateSection(arg.template, arg.context, arg.logo)]
  /\ UNCHANGED arg
  /\ Idle


SpecTokens ==
  /\ InitTokens
  /\ [][
      \/ ResolveProps
      \/ GenerateSection
     ]_vars

\* ------------------------------------------ the commit route and its token
\* routes/index.ts internalAuthConfig.internalToken
internalToken == "secret"
\* the x-internal-token header of a request; NoToken when it has none
NoToken == "none"

\* createInternalAuthMiddleware: what the preHandler throws for the token
internalAuth(token) ==
  IF token = NoToken THEN "UnauthorizedError"
  ELSE IF token # internalToken THEN "UnauthorizedError"
  ELSE "none"

\* error-mapper mapDomainErrorToHttp: status and code for a DomainError
mapDomainErrorToHttp(e) ==
  CASE e = "DraftNotFoundError"    -> [http |-> 404, body |-> "DRAFT_NOT_FOUND"]
    [] e = "DraftExpiredError"     -> [http |-> 410, body |-> "DRAFT_EXPIRED"]
    [] e = "InvalidDraftDataError" -> [http |-> 400, body |-> "INVALID_DRAFT_DATA"]
    [] e = "UnauthorizedError"     -> [http |-> 500, body |-> "UNAUTHORIZED"]
    [] e = "CommitLockError"       -> [http |-> 500, body |-> "COMMIT_LOCK_ERROR"]
    [] OTHER                       -> [http |-> 500, body |-> "INTERNAL_ERROR"]

\* errorHandler, the server's error handler: the reply to an error thrown
\* outside the controller's try blocks
errorHandler(e) ==
  CASE e = "ZodError" -> [http |-> 400, body |-> "VALIDATION_ERROR"]
    [] e \in {"DraftNotFoundError", "DraftExpiredError", "InvalidDraftDataError",
              "UnauthorizedError", "CommitLockError"} -> mapDomainErrorToHttp(e)
    [] OTHER -> [http |-> 500, body |-> "INTERNAL_ERROR"]

\* POST /drafts/{id}/commit with a token the preHandler refuses: the error
\* goes to the server's error handler, the controller is not called
CommitUnauthorized(token) ==
  /\ internalAuth(token) # "none"
  /\ arg' = [fn |-> "commit", token |-> token]
  /\ out' = [fn |-> "commit", reply |-> errorHandler(internalAuth(token))]
  /\ Idle

\* POST /drafts/{id}/commit: the preHandler, then the controller
CommitRoute(r, token) ==
  \/ internalAuth(token) = "none" /\ Commit(r)
  \/ CommitUnauthorized(token)


SpecAuth ==
  /\ Init
  /\ [][
      \/ Tick
      \/ \E b \in Brands : CreateDraft(b)
      \/ \E r \in 1..DraftSpecCommits, token \in {NoToken, "wrong", internalToken} :
           CommitRoute(r, token)
     ]_vars

\* -------------------------------------------- the draft store's operations
\* updateWithLock: attempts before it gives up
maxRetries == 3

\* repository.save of a draft: under the draft's fresh id, and again under
\* the same id while the key is there
StoreSave(b) ==
  /\ ~created \/ redisDraft.present
  /\ LET d == NewDraft(b, now)
     IN /\ redisDraft' = SetNX(redisDraft, d, TtlOf(d, now), now)
        /\ out' = [fn |-> "save", ok |-> ~redisDraft.present, at |-> now]
  /\ created' = TRUE
  /\ watch' = IF redisDraft.present THEN watch ELSE Touch
  /\ UNCHANGED <<arg, now, redisLock, projects, project_configs, tx, pc, err,
                 loaded, resp, upd, prev, opResp, etagSent, serial, aux, lapsed>>

\* repository.delete: the DEL a Commit ends with
StoreDelete ==
  /\ redisDraft.present
  /\ redisDraft' = Absent
  /\ watch' = Touch
  /\ UNCHANGED <<arg, out, now, redisLock, projects, project_configs, tx, pc,
                 err, loaded, resp, created, upd, prev, opResp, etagSent, serial,
                 aux, lapsed>>

\* findById(id, true), its redis.expire(key, ttl) after a GET that found
\* the key; every draft's ttlSeconds is DraftTtl
StoreRefresh ==
  /\ created
  /\ redisDraft' = ExpireCmd(redisDraft, DraftTtl, now)
  /\ watch' = IF redisDraft.present THEN Touch ELSE watch
  /\ UNCHANGED <<arg, out, now, redisLock, projects, project_configs, tx, pc,
                 err, loaded, resp, created, upd, prev, opResp, etagSent, serial,
                 aux, lapsed>>


\* updateWithLock, redis.watch(key): the repository's one connection watches
\* the key; a WATCH already on stays as it is, written key and all
LockWatch(u) ==
  /\ \/ upd[u].pc = "idle" /\ \A v \in 1..(u - 1) : upd[v].pc # "idle"
     \/ upd[u].pc = "watch"
  /\ watch' = [on |-> TRUE, dirty |-> watch.dirty]
  /\ upd' = [upd EXCEPT ![u] =
               [pc |-> "get", val |-> Absent,
                attempt |-> IF upd[u].pc = "idle" THEN 1 ELSE upd[u].attempt]]
  /\ UNCHANGED <<arg, out, now, redisDraft, redisLock, projects, project_configs, tx,
                 pc, err, loaded, resp, created, prev, opResp, etagSent, serial, aux,
                 lapsed>>

\* updateWithLock, redis.get(key): no value, UNWATCH and 'Draft not found'
LockGet(u) ==
  /\ upd[u].pc = "get"
  /\ IF redisDraft.present
     THEN /\ upd' = [upd EXCEPT ![u] = [@ EXCEPT !.pc = "exec", !.val = redisDraft.val]]
          /\ UNCHANGED <<watch, opResp>>
     ELSE /\ upd' = [upd EXCEPT ![u] = NoOp]
          /\ watch' = NoWatch
          /\ opResp' = DraftResp("Update", "Error")
  /\ UNCHANGED <<arg, out, now, redisDraft, redisLock, projects, project_configs, tx,
                 pc, err, loaded, resp, created, prev, aux, etagSent, serial, lapsed>>

\* updateWithLock, multi().set(key, json, 'EX', ttl).exec(): a plain SET,
\* which runs unless the watched key was written since WATCH; the WATCH is
\* off afterwards either way.  On null the next attempt starts, after
\* maxRetries attempts it throws
LockExec(u, p) ==
  /\ upd[u].pc = "exec"
  /\ ~PatchThrows(p)
  /\ LET d == DraftUpdate(upd[u].val, ApplyPatch(upd[u].val.brand, p), now)
     IN IF ~(watch.on /\ watch.dirty)
        THEN /\ redisDraft' = KeyWithTtl(d, TtlOf(d, now), now)
             /\ upd' = [upd EXCEPT ![u] = NoOp]
             /\ watch' = NoWatch
             /\ opResp' = DraftResp("Update", "ok")
        ELSE IF upd[u].attempt >= maxRetries
        THEN /\ upd' = [upd EXCEPT ![u] = NoOp]
             /\ watch' = NoWatch
             /\ opResp' = DraftResp("Update", "Error")
             /\ UNCHANGED redisDraft
        ELSE /\ upd' = [upd EXCEPT ![u] = [pc |-> "watch", val |-> Absent,
                                           attempt |-> upd[u].attempt + 1]]
             /\ watch' = NoWatch
             /\ UNCHANGED <<redisDraft, opResp>>
  /\ UNCHANGED <<arg, out, now, redisLock, projects, project_configs, tx, pc, err,
                 loaded, resp, created, prev, aux, etagSent, serial, lapsed>>


SpecStore ==
  /\ Init
  /\ [][
      \/ Tick
      \/ StoreSave(Profile("Acme", "tech", "logoA"))
      \/ StoreDelete
      \/ UpdateRead(1)
      \/ UpdateWrite(1, SetName("Zeta"))
      \/ StoreRefresh
      \/ \E u \in Upd : LockWatch(u)
      \/ \E u \in Upd : LockGet(u)
      \/ \E u \in Upd : LockExec(u, SetName("Zeta"))
     ]_vars

\* ------------------------------------------------- the commit lock over time
\* Time passes without bound.  Deadlines and timestamps are used only through
\* their distance to the clock, so once the clock stands at MaxTime the time
\* axis is moved back by TimeUnit instead of the clock being advanced.
Elapse ==
  IF now + TimeUnit <= MaxTime THEN Tick
  ELSE LET back(k) == IF k.present THEN [k EXCEPT !.exp = @ - TimeUnit] ELSE k
           draft == IF redisDraft.present
                    THEN [redisDraft EXCEPT !.val.createdAt = @ - TimeUnit,
                                            !.val.updatedAt = @ - TimeUnit,
                                            !.val.expiresAt = @ - TimeUnit]
                    ELSE redisDraft
       IN /\ redisDraft' = Expire(back(draft), now)
          /\ redisLock' = Expire(back(redisLock), now)
          /\ lapsed' = [draft |-> lapsed.draft \/ (redisDraft.present /\ ~redisDraft'.present),
                        lock |-> lapsed.lock \/ (/\ redisLock.present
                                                 /\ ~redisLock'.present
                                                 /\ InFlight(redisLock.val))]
          /\ watch' = IF redisDraft.present /\ ~redisDraft'.present THEN Touch ELSE watch
          /\ UNCHANGED <<now, arg, out, etagSent, serial, projects, project_configs, tx, pc,
                         err, loaded, resp, created, upd, prev, opResp, aux>>

\* releaseLock when redis.del throws: the error is logged and swallowed, the
\* key stays, and the request goes on as after a release (step 8 or rethrow)
CommitReleaseFails(r) ==
  /\ pc[r] \in {"release", "catch"}
  /\ pc' = [pc EXCEPT ![r] = "done"]
  /\ resp' = [resp EXCEPT ![r] =
                 IF pc[r] = "release"
                 THEN CommitResp("MIGRATED", NewProjectId(r), NewConfigId(r))
                 ELSE ErrorResp(err[r])]
  /\ err' = [err EXCEPT ![r] = "none"]
  /\ UNCHANGED <<watch, arg, out, etagSent, serial, lapsed, now, redisDraft, redisLock, projects,
                 project_configs, tx, loaded, created, upd, prev, opResp, aux>>

\* The service process dies: the requests it was serving never resume, and
\* the relational store rolls back the transactions of the closed connections.
CommitCrash ==
  /\ \E r \in Req : InFlight(r) /\ pc[r] # "crashed"
  /\ pc' = [r \in Req |-> IF InFlight(r) THEN "crashed" ELSE pc[r]]
  /\ tx' = [r \in Req |-> NoTx]
  /\ UNCHANGED <<watch, arg, out, etagSent, serial, lapsed, now, redisDraft, redisLock, projects,
                 project_configs, err, loaded, resp, created, upd, prev, opResp, aux>>

\* The client that was answered 409 CommitInProgress sends its Commit again;
\* it holds the 409 until the new answer arrives.
CommitRetry(r) ==
  /\ pc[r] = "done"
  /\ resp[r].http = 409
  /\ pc' = [pc EXCEPT ![r] = "idle"]
  /\ aux' = [aux EXCEPT ![r].retried = TRUE]
  /\ UNCHANGED <<watch, arg, out, etagSent, serial, lapsed, now, redisDraft, redisLock, projects,
                 project_configs, tx, err, loaded, resp, created, upd, prev, opResp>>

\* whether request r has been sent and not yet answered for good
Pending(r) == pc[r] # "idle" \/ resp[r].http = 409

\* Commit clients that retry on 409, a lock release that may fail and a
\* process that may die, with time passing, requests being served and 409s
\* being retried for ever
SpecLock ==
  /\ Init
  /\ [][
      \/ Elapse
      \/ \E b \in Brands : CreateDraft(b)
      \/ \E r \in 1..LockSpecCommits : Commit(r)
      \/ \E r \in 1..LockSpecCommits : CommitReleaseFails(r)
      \/ CommitCrash
      \/ \E r \in 1..LockSpecCommits : CommitRetry(r)
     ]_vars
  /\ WF_vars(Elapse)
  /\ \A r \in 1..LockSpecCommits :
       WF_vars(Pending(r) /\ Commit(r)) /\ WF_vars(CommitRetry(r))

\* Step 6 when draftRepository.delete throws: the error is logged and
\* swallowed, the draft key stays and the request goes on to step 7
CommitDeleteFails(r) ==
  /\ pc[r] = "deleteDraft"
  /\ pc' = [pc EXCEPT ![r] = "release"]
  /\ aux' = [aux EXCEPT ![r].changedDraft = FALSE]
  /\ UNCHANGED <<watch, arg, out, etagSent, serial, lapsed, now, redisDraft, redisLock, projects,
                 project_configs, tx, err, loaded, resp, created, upd, prev, opResp>>

\* the commit protocol with a draft store whose DEL may fail
SpecCleanup == Init /\ [][CommitNext \/ \E r \in Req : CommitDeleteFails(r)]_vars

\* ------------------------------------------------------------ html-sanitizer
\* character classes of the patterns, under the flag /i
Letters == Lowercase \cup {"A", "B", "I", "J", "L", "N", "O", "S", "U", "Z"}
WordChars == Letters \cup Digits \cup {"_"}

\* whether pattern pat, given in lower case, stands at index i of s (flag /i)
StartsAt(s, i, pat) ==
  /\ i >= 1
  /\ i + Len(pat) - 1 <= Len(s)
  /\ \A m \in 1..Len(pat) : Lower(s[i + m - 1]) = pat[m]

\* the first index from i on at which pat stands in s, 0 when there is none
IndexFrom(s, i, pat) ==
  IF \E j \in i..Len(s) : StartsAt(s, j, pat)
  THEN CHOOSE j \in i..Len(s) :
         StartsAt(s, j, pat) /\ \A h \in i..(j - 1) : ~StartsAt(s, h, pat)
  ELSE 0

\* the last index of the longest run of characters outside class cls that
\* starts at index i of s (i - 1 when there is none)
RECURSIVE RunEndNot(_, _, _)
RunEndNot(s, i, cls) ==
  IF i <= Len(s) /\ s[i] \notin cls THEN RunEndNot(s, i + 1, cls) ELSE i - 1

\* String.prototype.toLowerCase
LowerSeq(s) == [k \in 1..Len(s) |-> Lower(s[k])]

ALLOWED_TAGS ==
  {<<"h", "t", "m", "l">>, <<"h", "e", "a", "d">>, <<"b", "o", "d", "y">>, <<"t", "i", "t",
      "l", "e">>, <<"m", "e", "t", "a">>, <<"l", "i", "n", "k">>, <<"s", "t", "y", "l", "e">>,
   <<"d", "i", "v">>, <<"s", "p", "a", "n">>, <<"s", "e", "c", "t", "i", "o", "n">>, <<"a",
       "r", "t", "i", "c", "l", "e">>, <<"h", "e", "a", "d", "e", "r">>, <<"f", "o", "o", "t",
           "e", "r">>, <<"m", "a", "i", "n">>,
   <<"a", "s", "i", "d", "e">>, <<"n", "a", "v">>,
   <<"h", "1">>, <<"h", "2">>, <<"h", "3">>, <<"h", "4">>, <<"h", "5">>, <<"h", "6">>,
   <<"p">>, <<"b", "r">>, <<"h", "r">>,
   <<"u", "l">>, <<"o", "l">>, <<"l", "i">>,
   <<"a">>, <<"s", "t", "r", "o", "n", "g">>, <<"e", "m">>, <<"b">>, <<"i">>, <<"u">>, <<"s",
       "m", "a", "l", "l">>,
   <<"i", "m", "g">>, <<"p", "i", "c", "t", "u", "r", "e">>, <<"s", "o", "u", "r", "c", "e">>,
       <<"s", "v", "g">>, <<"p", "a", "t", "h">>, <<"c", "i", "r", "c", "l", "e">>, <<"r", "e",
           "c", "t">>,
   <<"b", "u", "t", "t", "o", "n">>, <<"f", "o", "r", "m">>, <<"i", "n", "p", "u", "t">>,
       <<"l", "a", "b", "e", "l">>, <<"t", "e", "x", "t", "a", "r", "e", "a">>, <<"s", "e",
           "l", "e", "c", "t">>, <<"o", "p", "t", "i", "o", "n">>,
   <<"t", "a", "b", "l", "e">>, <<"t", "h", "e", "a", "d">>, <<"t", "b", "o", "d", "y">>,
       <<"t", "r">>, <<"t", "h">>, <<"t", "d">>}

ALLOWED_ATTRIBUTES ==
  {<<"c", "l", "a", "s", "s">>, <<"i", "d">>, <<"s", "t", "y", "l", "e">>, <<"t", "i", "t",
      "l", "e">>, <<"a", "l", "t">>, <<"a", "r", "i", "a", "-", "l", "a", "b", "e", "l">>,
          <<"a", "r", "i", "a", "-", "h", "i", "d", "d", "e", "n">>,
   <<"h", "r", "e", "f">>, <<"t", "a", "r", "g", "e", "t">>, <<"r", "e", "l">>,
   <<"s", "r", "c">>, <<"s", "r", "c", "s", "e", "t">>, <<"w", "i", "d", "t", "h">>, <<"h",
       "e", "i", "g", "h", "t">>,
   <<"t", "y", "p", "e">>, <<"n", "a", "m", "e">>, <<"v", "a", "l", "u", "e">>, <<"p", "l",
       "a", "c", "e", "h", "o", "l", "d", "e", "r">>,
   <<"d", "a", "t", "a", "-", "*">>}

DANGEROUS_PROTOCOLS ==
  {<<"j", "a", "v", "a", "s", "c", "r", "i", "p", "t", ":">>, <<"d", "a", "t", "a", ":">>,
      <<"v", "b", "s", "c", "r", "i", "p", "t", ":">>, <<"f", "i", "l", "e", ":">>}

\* removeScriptTags: /<script\b[^<]*(?:(?!<\/script>)<[^<]*)*<\/script>/gi
\* matches from <script, a word boundary after it, up to the first
\* </script>; the matches are taken out
RECURSIVE removeScriptTags(_, _)
removeScriptTags(html, i) ==
  IF i > Len(html) THEN <<>>
  ELSE LET close == IndexFrom(html, i + 7, <<"<", "/", "s", "c", "r", "i", "p", "t", ">">>)
       IN IF /\ StartsAt(html, i, <<"<", "s", "c", "r", "i", "p", "t">>)
             /\ close # 0
             /\ html[i + 7] \notin WordChars
          THEN removeScriptTags(html, close + 9)
          ELSE <<html[i]>> \o removeScriptTags(html, i + 1)

\* the index at which ends the match, starting at index i of s, of
\* \s*=\s*["'][^"']*["'] (0 when there is none), and where its value starts
QuotedValue(s, i) ==
  LET Quotes == {"\"", "'"}
      b == RunEnd(s, i, Spaces)
      c == RunEnd(s, b + 2, Spaces)
      d == RunEndNot(s, c + 2, Quotes)
  IN IF /\ b + 1 <= Len(s) /\ s[b + 1] = "="
        /\ c + 1 <= Len(s) /\ s[c + 1] \in Quotes
        /\ d + 1 <= Len(s)
     THEN [end |-> d + 1, from |-> c + 2]
     ELSE [end |-> 0, from |-> 0]

\* the index at which the match of /\s*on\w+\s*=\s*["'][^"']*["']/i that
\* starts at index i of s ends, 0 when there is none
EventHandlerEnd(s, i) ==
  LET a == RunEnd(s, i, Spaces)
      w == RunEnd(s, a + 3, WordChars)
  IN IF StartsAt(s, a + 1, <<"o", "n">>) /\ w >= a + 3
     THEN QuotedValue(s, w + 1).end
     ELSE 0

\* removeEventHandlers, from index i of html on
RECURSIVE removeEventHandlers(_, _)
removeEventHandlers(html, i) ==
  IF i > Len(html) THEN <<>>
  ELSE IF EventHandlerEnd(html, i) # 0
  THEN removeEventHandlers(html, EventHandlerEnd(html, i) + 1)
  ELSE <<html[i]>> \o removeEventHandlers(html, i + 1)

\* sanitizeUrls: a match of /(href|src)\s*=\s*["']([^"']*)["']/gi whose
\* value, trimmed and in lower case, starts with a dangerous protocol
\* becomes attr="#"
RECURSIVE sanitizeUrls(_, _)
sanitizeUrls(html, i) ==
  IF i > Len(html) THEN <<>>
  ELSE LET n == IF StartsAt(html, i, <<"h", "r", "e", "f">>) THEN 4
                ELSE IF StartsAt(html, i, <<"s", "r", "c">>) THEN 3 ELSE 0
           m == QuotedValue(html, i + n)
           url == SubSeq(html, m.from, m.end - 1)
       IN IF n = 0 \/ m.end = 0
          THEN <<html[i]>> \o sanitizeUrls(html, i + 1)
          ELSE (IF \E protocol \in DANGEROUS_PROTOCOLS :
                     StartsAt(Trim(url), 1, protocol)
                THEN SubSeq(html, i, i + n - 1) \o <<"=", "\"", "#", "\"">>
                ELSE SubSeq(html, i, m.end))
               \o sanitizeUrls(html, m.end + 1)

\* String.prototype.replace(/pat\s*tail/gi, '') (gap) or
\* String.prototype.replace(/pat/gi, '') (no gap, tail empty)
RECURSIVE RemoveAllCI(_, _, _, _, _)
RemoveAllCI(s, i, pat, gap, tail) ==
  IF i > Len(s) THEN <<>>
  ELSE LET b == IF gap THEN RunEnd(s, i + Len(pat), Spaces) ELSE i + Len(pat) - 1
       IN IF StartsAt(s, i, pat) /\ StartsAt(s, b + 1, tail)
          THEN RemoveAllCI(s, b + 1 + Len(tail), pat, gap, tail)
          ELSE <<s[i]>> \o RemoveAllCI(s, i + 1, pat, gap, tail)

\* sanitizeStyleTags: /<style[^>]*>(.*?)<\/style>/gis
RECURSIVE sanitizeStyleTags(_, _)
sanitizeStyleTags(html, i) ==
  IF i > Len(html) THEN <<>>
  ELSE LET g == IndexFrom(html, i + 6, <<">">>)
           close == IF g = 0 THEN 0 ELSE IndexFrom(html, g + 1, <<"<", "/", "s", "t", "y", "l",
               "e", ">">>)
           content == SubSeq(html, g + 1, close - 1)
           sanitizedContent ==
             RemoveAllCI(RemoveAllCI(content, 1, <<"j", "a", "v", "a", "s", "c", "r", "i", "p",
                 "t", ":">>, FALSE, <<>>),
                         1, <<"e", "x", "p", "r", "e", "s", "s", "i", "o", "n">>, TRUE, <<"(">>)
       IN IF StartsAt(html, i, <<"<", "s", "t", "y", "l", "e">>) /\ close # 0
          THEN <<"<", "s", "t", "y", "l", "e", ">">> \o sanitizedContent \o <<"<", "/", "s",
              "t", "y", "l", "e", ">">>
                 \o sanitizeStyleTags(html, close + 8)
          ELSE <<html[i]>> \o sanitizeStyleTags(html, i + 1)

\* the match of /<\/?([a-z][a-z0-9]*)\b[^>]*>/i (closing) or of
\* /<([a-z][a-z0-9]*)\b([^>]*)>/i (not closing) that starts at index i of s:
\* where it ends (0 when there is none), the tag name and the attributes
TagAt(s, i, closing) ==
  LET n == IF closing /\ StartsAt(s, i + 1, <<"/">>) THEN i + 2 ELSE i + 1
      e == RunEnd(s, n + 1, Letters \cup Digits)
      g == IndexFrom(s, e + 1, <<">">>)
  IN IF /\ StartsAt(s, i, <<"<">>)
        /\ n <= Len(s) /\ s[n] \in Letters
        /\ g # 0
        /\ s[e + 1] \notin WordChars
     THEN [end |-> g, tagName |-> SubSeq(s, n, e), attributes |-> SubSeq(s, e + 1, g - 1)]
     ELSE [end |-> 0, tagName |-> <<>>, attributes |-> <<>>]

\* stripUnknownTags, from index i of html on
RECURSIVE stripUnknownTags(_, _, _)
stripUnknownTags(html, i, allowedTags) ==
  IF i > Len(html) THEN <<>>
  ELSE LET m == TagAt(html, i, TRUE)
       IN IF m.end = 0
          THEN <<html[i]>> \o stripUnknownTags(html, i + 1, allowedTags)
          ELSE (IF LowerSeq(m.tagName) \in allowedTags
                THEN SubSeq(html, i, m.end) ELSE <<>>)
               \o stripUnknownTags(html, m.end + 1, allowedTags)

\* sanitizeAttributes, the inner replace:
\* /\s+([a-z][a-z0-9-]*)\s*=\s*["']([^"']*)["']/gi
RECURSIVE sanitizedAttrs(_, _, _)
sanitizedAttrs(attributes, i, allowedAttributes) ==
  IF i > Len(attributes) THEN <<>>
  ELSE LET a == RunEnd(attributes, i, Spaces)
           e == RunEnd(attributes, a + 2, Letters \cup Digits \cup {"-"})
           m == QuotedValue(attributes, e + 1)
           lowerAttrName == LowerSeq(SubSeq(attributes, a + 1, e))
       IN IF \/ a < i
             \/ a + 1 > Len(attributes)
             \/ attributes[a + 1] \notin Letters
             \/ m.end = 0
          THEN <<attributes[i]>> \o sanitizedAttrs(attributes, i + 1, allowedAttributes)
          ELSE (IF \/ StartsAt(lowerAttrName, 1, <<"d", "a", "t", "a", "-">>)
                   \/ lowerAttrName \in allowedAttributes
                THEN SubSeq(attributes, i, m.end) ELSE <<>>)
               \o sanitizedAttrs(attributes, m.end + 1, allowedAttributes)

\* sanitizeAttributes, from index i of html on
RECURSIVE sanitizeAttributes(_, _, _)
sanitizeAttributes(html, i, allowedAttributes) ==
  IF i > Len(html) THEN <<>>
  ELSE LET m == TagAt(html, i, FALSE)
       IN IF m.end = 0
          THEN <<html[i]>> \o sanitizeAttributes(html, i + 1, allowedAttributes)
          ELSE <<"<">> \o m.tagName \o sanitizedAttrs(m.attributes, 1, allowedAttributes)
                 \o <<">">> \o sanitizeAttributes(html, m.end + 1, allowedAttributes)

\* sanitizeHtml with the default options; each step scans its input from
\* the first character
sanitizeHtml(html) ==
  LET noScripts == removeEventHandlers(removeScriptTags(html, 1), 1)
      noUrls == sanitizeStyleTags(sanitizeUrls(noScripts, 1), 1)
  IN sanitizeAttributes(stripUnknownTags(noUrls, 1, ALLOWED_TAGS), 1,
                        ALLOWED_ATTRIBUTES)

\* validateHtml: what the three checks find
validateHtml(html) ==
  LET script == Contains(html, <<"<", "s", "c", "r", "i", "p", "t">>)
      handlers == MatchesEventHandler(html)
      protocols == {protocol \in DANGEROUS_PROTOCOLS : Contains(html, protocol)}
  IN [valid |-> ~script /\ ~handlers /\ protocols = {},
      script |-> script, handlers |-> handlers, protocols |-> protocols]

\* --------------------------------------------- the sanitizer on its own
\* pieces of markup an external renderer may return
HtmlPieces ==
  {<<"<", "p", ">", "h", "i", "<", "/", "p", ">">>,
   <<"<", "s", "c", "r", "i", "p", "t", ">", "x", "<", "/", "s", "c", "r", "i", "p", "t", ">">>,
   <<"<", "a", " ", "o", "n", "c", "l", "i", "c", "k", "=", "\"", "x", "\"", ">">>,
   <<"<", "a", " ", "o", "n", "c", "l", "i", "c", "k", "=", "x", ">">>,
   <<"<", "a", " ", "h", "r", "e", "f", "=", "\"", " ", "J", "a", "v", "a", "s", "c", "r", "i",
       "p", "t", ":", "x", "\"", ">">>,
   <<"j", "a", "v", "a", "s", "c", "r", "i", "p", "t", ":">>,
   <<"<", "s", "c", "r", "i", "p", "t">>,
   <<"<", "s", "t", "y", "l", "e", ">", "a", "{", "b", ":", "e", "x", "p", "r", "e", "s", "s",
       "i", "o", "n", " ", "(", "c", ")", "}", "<", "/", "s", "t", "y", "l", "e", ">">>,
   <<"<", "w", "i", "d", "g", "e", "t", " ", "i", "d", "=", "'", "w", "'", ">">>,
   <<"<", "d", "i", "v", " ", "c", "l", "a", "s", "s", "=", "\"", "c", "\"", " ", "b", "a",
       "d", "=", "\"", "2", "\"", " ", "d", "a", "t", "a", "-", "v", "=", "\"", "3", "\"", ">">>}

\* documents of up to MaxPieces pieces
HtmlInputs ==
  {Join(ps, <<>>) : ps \in UNION {[1..n -> HtmlPieces] : n \in 1..MaxPieces}}

InitSanitize ==
  /\ Init!1 /\ Init!2 /\ Init!3 /\ Init!4 /\ Init!5 /\ Init!6 /\ Init!7
  /\ Init!8 /\ Init!9 /\ Init!10 /\ Init!11 /\ Init!12 /\ Init!13 /\ Init!14
  /\ Init!15 /\ Init!16 /\ Init!17 /\ Init!18
  /\ arg \in {[fn |-> "sanitizeHtml", html |-> h] : h \in HtmlInputs}
  /\ out = NoOut
  /\ watch = NoWatch

\* html = sanitizeHtml(html)
SanitizeHtml ==
  /\ arg.fn = "sanitizeHtml"
  /\ out = NoOut
  /\ out' = [fn |-> "sanitizeHtml", html |-> sanitizeHtml(arg.html)]
  /\ UNCHANGED arg
  /\ Idle

\* validation = validateHtml(html)
ValidateHtml ==
  /\ out.fn = "sanitizeHtml"
  /\ out' = [fn |-> "validateHtml", html |-> out.html,
             validation |-> validateHtml(out.html)]
  /\ UNCHANGED arg
  /\ Idle

SpecSanitize ==
  /\ InitSanitize
  /\ [][
      \/ SanitizeHtml
      \/ ValidateHtml
     ]_vars

\* ------------------------------------------------ the external renderer
\* FrappeRendererAdapter.isAvailable
isAvailable(frappe) == frappe.enabled /\ frappe.isInitialized

\* FrappeRendererAdapter.renderHtml: err is the error thrown, val the markup
\* that the library's render returned otherwise
renderHtml(frappe) ==
  IF ~isAvailable(frappe) \/ frappe.render.throws
  THEN [err |-> "Error", val |-> <<>>]
  ELSE [err |-> "none", val |-> frappe.render.html]

\* SafePreviewRenderer.renderHtmlPreview: the adapter's markup, sanitized and
\* validated, when the adapter is available; the built-in document when it
\* is not or when a step of the external path throws
renderHtmlPreview(configJson, frappe) ==
  LET html == sanitizeHtml(renderHtml(frappe).val)
  IN IF /\ isAvailable(frappe)
        /\ renderHtml(frappe).err = "none"
        /\ validateHtml(html).valid
     THEN [err |-> "none", type |-> "html", val |-> html]
     ELSE buildHtmlDocument(configJson.brand, configJson.theme, configJson.pages)

\* adapters: disabled, enabled without the library loaded, and loaded with a
\* library whose render throws or returns a piece of markup
Adapters ==
  LET Throws == [throws |-> TRUE, html |-> <<>>]
  IN {[enabled |-> FALSE, isInitialized |-> FALSE, render |-> Throws],
      [enabled |-> TRUE, isInitialized |-> FALSE, render |-> Throws],
      [enabled |-> TRUE, isInitialized |-> TRUE, render |-> Throws]}
     \cup {[enabled |-> TRUE, isInitialized |-> TRUE,
             render |-> [throws |-> FALSE, html |-> h]] : h \in HtmlPieces}

InitExternal ==
  /\ Init!1 /\ Init!2 /\ Init!3 /\ Init!4 /\ Init!5 /\ Init!6 /\ Init!7
  /\ Init!8 /\ Init!9 /\ Init!10 /\ Init!11 /\ Init!12 /\ Init!13 /\ Init!14
  /\ Init!15 /\ Init!16 /\ Init!17 /\ Init!18
  /\ arg \in {[fn |-> "renderHtmlPreview", config |-> c, frappe |-> f] :
                c \in Configs, f \in Adapters}
  /\ out = NoOut
  /\ watch = NoWatch

\* GET /drafts/{id}/preview?type=html with a renderer that holds an adapter
RenderHtmlPreview ==
  /\ arg.fn = "renderHtmlPreview"
  /\ out = NoOut
  /\ out' = [fn |-> "renderHtmlPreview",
             reply |-> PreviewReply(renderHtmlPreview(arg.config, arg.frappe))]
  /\ UNCHANGED arg
  /\ Idle

\* the same request answered by a renderer without adapter
RenderBuiltIn ==
  /\ arg.fn = "renderHtmlPreview"
  /\ out = NoOut
  /\ out' = [fn |-> "render", format |-> "html",
             reply |-> PreviewReply(render(arg.config, "html"))]
  /\ UNCHANGED arg
  /\ Idle

SpecExternal ==
  /\ InitExternal
  /\ [][
      \/ RenderHtmlPreview
      \/ RenderBuiltIn
     ]_vars

\* ------------------------------------------------------------------ claims
Done(r) == pc[r] = "done"
Is(r, http, body) == resp[r].http = http /\ resp[r].body = body
RowsOfDraft == {p \in projects : p.draftId = TheDraftId}
ConfigsOf(p) == {c \in project_configs : c.projectId = p.projectId}

\* C1: in every reachable state, whatever Commit attempts ran, failed, lost
\* the lock or ran after it expired, table projects holds at most one row
\* for the draft id.
C1_OneRowPerDraft == Cardinality(RowsOfDraft) <= 1

\* C1 case: a row is committed and a later insert for the same draft id was
\* turned away by the constraint.
C1_Witness ==
  /\ Cardinality(RowsOfDraft) = 1
  /\ \E r \in Req : aux[r].hitUnique

\* C2: as long as no request outlives the TTL of the lock it set, at most one
\* Commit request is between its load of the draft and its delete of the
\* draft (steps 3-7).
InSteps3to7(r) ==
  pc[r] \in {"insertProject", "insertConfig", "txCommit", "deleteDraft"}

C2_OneWriter ==
  ~lapsed.lock => Cardinality({r \in Req : InSteps3to7(r)}) <= 1

\* C3: when exactly two Commit requests for a live, uncommitted draft overlap,
\* one answers 201 MIGRATED, the other 409 CommitInProgress or
\* 200 ALREADY_COMMITTED, and one Project row exists afterwards.
TwoConcurrentDone ==
  /\ Done(1) /\ Done(2) /\ pc[3] = "idle"
  /\ aux[1].overlap /\ aux[2].overlap
  /\ aux[1].startLive /\ aux[2].startLive
  /\ ~aux[1].afterMigrated /\ ~aux[2].afterMigrated
  /\ ~lapsed.draft

C3_TwoConcurrent ==
  TwoConcurrentDone =>
    /\ \E r \in {1, 2} :
         /\ Is(r, 201, "MIGRATED")
         /\ Is(3 - r, 409, "CommitInProgress") \/ Is(3 - r, 200, "ALREADY_COMMITTED")
    /\ Cardinality(RowsOfDraft) = 1

\* C4: two Commit calls made one after the other on a draft that is live
\* when the first loads it answer 201 MIGRATED and then
\* 200 ALREADY_COMMITTED, with the same projectId and the same configId.
TwoSequentialDone ==
  /\ Done(1) /\ Done(2)
  /\ ~aux[1].overlap /\ ~aux[2].overlap
  /\ aux[1].loadSaw = "ok"

C4_RoundTrip ==
  TwoSequentialDone =>
    /\ Is(1, 201, "MIGRATED")
    /\ Is(2, 200, "ALREADY_COMMITTED")
    /\ resp[1].projectId # NoId /\ resp[1].configId # NoId
    /\ resp[2].projectId = resp[1].projectId
    /\ resp[2].configId = resp[1].configId

C4_Witness == TwoSequentialDone /\ resp[2].http = 200

\* C5: once a Commit has answered MIGRATED, every later call of a sequence
\* of calls made one after the other answers 200 ALREADY_COMMITTED with the
\* original identifiers, never 409.
C5_Replay ==
  \A r \in Req :
    (/\ Done(r) /\ aux[r].afterMigrated
     /\ \A q \in 1..r : ~aux[q].overlap)
    => \E m \in Req :
         /\ Migrated(m)
         /\ Is(r, 200, "ALREADY_COMMITTED")
         /\ resp[r].projectId = resp[m].projectId
         /\ resp[r].configId = resp[m].configId

\* C6: once a Commit has answered MIGRATED the draft key is absent in every
\* later state, and a GetDraft, Update or Preview made from then on answers
\* 404 DraftNotFound.
NotFoundAnswer(op) == opResp' = [op |-> op, http |-> 404]

C7_Atomic ==
  /\ [](/\ \A p \in projects : Cardinality(ConfigsOf(p)) = 1
        /\ \A c \in project_configs :
              \E p \in projects : p.projectId = c.projectId)
  /\ [][/\ projects \subseteq projects'
        /\ project_configs \subseteq project_configs']_vars

\* C7 case: one request's transaction failed after its first insert and
\* another request's transaction committed.
C7_Witness ==
  /\ \E r \in Req : err[r] = "QueryErrorAfterInsert"
  /\ projects # {}

\* C8: a Commit whose insert hits the uniqueness constraint answers
\* 200 ALREADY_COMMITTED with the identifiers of the existing rows.
C8_UniqueIsIdempotent ==
  \A r \in Req :
    (Done(r) /\ aux[r].hitUnique) =>
      /\ Is(r, 200, "ALREADY_COMMITTED")
      /\ \E p \in RowsOfDraft : resp[r].projectId = p.projectId

\* C9: a Commit that ends in neither MIGRATED nor ALREADY_COMMITTED has
\* written no row, has not changed the draft and has left no lock of its own;
\* it answers DraftNotFound when it found the draft absent and DraftExpired
\* when it found it present with expiresAt in the past.
Failed(r) == Done(r) /\ resp[r].body \notin {"MIGRATED", "ALREADY_COMMITTED"}

C10_NoSlide ==
  [][(GetDraft \/ \E r \in Req : CommitLoadDraft(r)) => redisDraft' = redisDraft]_vars

\* C10 case: GetDraft answered for a live draft whose TTL has run down.
C10_Witness ==
  /\ opResp = [op |-> "GetDraft", http |-> 200]
  /\ redisDraft.present
  /\ RemainingTtl(redisDraft, now) < redisDraft.val.ttlSeconds

\* C11: right after a Create, a successful Update or a successful Preview,
\* the remaining TTL of the draft key is the draft's ttlSeconds, to within
\* one second of rounding, whatever it was before (for Preview: when the key
\* has not run out between the handler's GET and its EXPIRE).
SlidToTtlSeconds ==
  /\ RemainingTtl(redisDraft', now') <= redisDraft'.val.ttlSeconds
  /\ RemainingTtl(redisDraft', now') >= redisDraft'.val.ttlSeconds - 1

C12_Timestamps ==
  redisDraft.present =>
    /\ redisDraft.val.createdAt <= redisDraft.val.updatedAt
    /\ redisDraft.val.updatedAt <= redisDraft.val.expiresAt
    /\ redisDraft.val.expiresAt = redisDraft.val.updatedAt + redisDraft.val.ttlSeconds

\* C12 case: the record was written by an Update some time after its
\* creation and read by a Preview later still.
C12_Witness ==
  /\ redisDraft.present
  /\ redisDraft.val.updatedAt > redisDraft.val.createdAt
  /\ now > redisDraft.val.updatedAt
  /\ opResp = [op |-> "Preview", http |-> 200]

\* C13: the remaining TTL of a present draft key is at most the shorter of
\* the record's ttlSeconds and its expiresAt - now, also after a Preview.
Min(a, b) == IF a <= b THEN a ELSE b

C13_TtlBound ==
  redisDraft.present =>
    RemainingTtl(redisDraft, now) <=
      Min(redisDraft.val.ttlSeconds, redisDraft.val.expiresAt - now)

\* C14: the stored draft reflects the change of every Update that answered
\* success: its brand profile is the one obtained by applying their patches
\* one after the other.
C14_NoLostUpdate ==
  redisDraft.present => redisDraft.val.brand = serial

\* C15: when a Commit answers MIGRATED, the configJson it persisted is made
\* from the brand profile left by the Updates that answered success.
C15_CommitSeesUpdate ==
  \A r \in Req :
    Migrated(r) =>
      \E c \in project_configs :
        /\ c.configId = resp[r].configId
        /\ c.configJson = serial

\* C16: an Update with logo = null on a live draft that has a logo answers
\* success and leaves the stored draft without logo, brand name and industry
\* as they were.
C16_NullClearsLogo ==
  [][\A u \in Upd :
       (/\ UpdateWrite(u, ClearLogo)
        /\ redisDraft.present
        /\ redisDraft.val.brand.logo # NoLogo
        /\ upd[u].val = redisDraft.val)
       => /\ opResp' = [op |-> "Update", http |-> 200]
          /\ redisDraft'.present
          /\ redisDraft'.val.brand =
               [redisDraft.val.brand EXCEPT !.logo = NoLogo]]_vars

\* C17: a successful Update leaves every brand profile field its request
\* omits as it was stored, and leaves createdAt and ttlSeconds as they were.
C17_AbsentMeansNoChange ==
  [][\A u \in Upd, p \in Patches :
       (UpdateWrite(u, p) /\ redisDraft.present /\ opResp'.http = 200)
       => /\ \A f \in {"brandName", "industry", "logo"} :
               p[f] = Unset => redisDraft'.val.brand[f] = redisDraft.val.brand[f]
          /\ redisDraft'.val.createdAt = redisDraft.val.createdAt
          /\ redisDraft'.val.ttlSeconds = redisDraft.val.ttlSeconds]_vars

\* C18: a Preview that follows a Preview of the same, not updated draft
\* carries the same ETag; a Preview that follows a successful Update carries
\* an ETag different from the one before the Update.
PreviewAnswered == opResp'.op = "Preview" /\ opResp'.http \in {200, 304}
SameDraftAsBefore == ~etagSent.dirty /\ etagSent.of = prev.val

C18_ETagStable ==
  [][\A conditional \in BOOLEAN :
       (GetPreview(conditional) /\ PreviewAnswered /\ etagSent.http # 0)
       => /\ SameDraftAsBefore => etagSent'.etag = etagSent.etag
          /\ etagSent.dirty => etagSent'.etag # etagSent.etag]_vars

\* C19: a Preview sent with If-None-Match set to the ETag just received
\* answers 304 when the draft was not updated, and 200 with another ETag
\* after an Update.
C19_ConditionalPreview ==
  [][(GetPreview(TRUE) /\ PreviewAnswered /\ etagSent.http = 200)
       => /\ SameDraftAsBefore => opResp'.http = 304
          /\ etagSent.dirty =>
               opResp'.http = 200 /\ etagSent'.etag # etagSent.etag]_vars

\* C20: two runs of generate on the same draft give configs that agree in
\* every field but configId and generatedAt.
Elide(config) == [config EXCEPT !.configId = 0, !.generatedAt = 0]

WhitelistTypes ==
  {"hero", "features", "about", "contact", "services", "gallery",
   "testimonials", "pricing", "faq", "team", "footer"}
OnWhitelist(section) == section.type \in WhitelistTypes
Unsafe(section) == containsUnsafeContent(stringify(SectionJson(section)))

\* the config without the sections whose type is outside the whitelist
WithoutOthers(config) ==
  [brand |-> config.brand, theme |-> config.theme,
   pages |-> [p \in 1..Len(config.pages) |->
                [id |-> config.pages[p].id,
                 sections |-> SelectSeq(config.pages[p].sections, OnWhitelist)]]]

Rendered == out.fn = "render"

\* C21: a preview of a config answers exactly what it answers for the same
\* config with the sections of a type outside the whitelist taken out (so
\* such a section adds nothing to the HTML and cannot make the preview
\* fail, whatever its props hold), and the JSON model holds no section of
\* such a type.
C21_SectionWhitelist ==
  Rendered =>
    /\ out.reply = PreviewReply(render(WithoutOthers(arg.config), out.format))
    /\ out.reply.http = 200 /\ out.format = "json" =>
         \A p \in 1..Len(out.reply.val.pages) :
           \A i \in 1..Len(out.reply.val.pages[p].sections) :
             OnWhitelist(out.reply.val.pages[p].sections[i])

\* a preview answered 200 for a config whose home page has
\* a section outside the whitelist with a script tag in its props
C21_Witness ==
  /\ Rendered
  /\ out.reply.http = 200
  /\ \E p \in 1..Len(arg.config.pages) :
       \E i \in 1..Len(arg.config.pages[p].sections) :
         /\ arg.config.pages[p].id = "home"
         /\ ~OnWhitelist(arg.config.pages[p].sections[i])
         /\ Unsafe(arg.config.pages[p].sections[i])

\* C22: when the serialization of a whitelisted section of the config
\* matches one of the unsafe patterns, the preview, HTML or JSON, is
\* answered with the error kind PreviewUnsafe.
C22_UnsafeReported ==
  /\ Rendered
  /\ \E p \in 1..Len(arg.config.pages) :
       \E i \in 1..Len(arg.config.pages[p].sections) :
         /\ OnWhitelist(arg.config.pages[p].sections[i])
         /\ Unsafe(arg.config.pages[p].sections[i])
  => out.reply.body = "PreviewUnsafe"

\* whether s occurs in t as it is
Occurs(s, t) ==
  \E i \in 1..(Len(t) - Len(s) + 1) : SubSeq(t, i, i + Len(s) - 1) = s

\* the HTML-escaped form of a string: each of & < > " ' replaced by its
\* entity, every other character kept
RECURSIVE Escaped(_)
Escaped(s) ==
  IF s = <<>> THEN <<>>
  ELSE (CASE Head(s) = "&"  -> <<"&", "a", "m", "p", ";">>
          [] Head(s) = "<"  -> <<"&", "l", "t", ";">>
          [] Head(s) = ">"  -> <<"&", "g", "t", ";">>
          [] Head(s) = "\"" -> <<"&", "q", "u", "o", "t", ";">>
          [] Head(s) = "'"  -> <<"&", "#", "0", "3", "9", ";">>
          [] OTHER          -> <<Head(s)>>) \o Escaped(Tail(s))

\* the strings of a JSON value, in the order of the tree
RECURSIVE Strings(_)
Strings(x) ==
  CASE x.k = "str" -> <<x.v>>
    [] x.k = "arr" -> Join([i \in 1..Len(x.v) |-> Strings(x.v[i])], <<>>)
    [] x.k = "obj" -> Join([i \in 1..Len(x.v) |-> Strings(x.v[i][2])], <<>>)
    [] OTHER -> <<>>

\* C24: in a preview answered 200, the JSON model carries for every string
\* of a whitelisted section's props exactly its escaped form, and the HTML
\* holds the headline of every hero section of the home page in that same
\* escaped form inside its h1 element.
C24_Escaping ==
  Rendered /\ out.reply.http = 200 =>
    LET kept(p) == SelectSeq(arg.config.pages[p].sections, OnWhitelist)
    IN /\ out.format = "json" =>
            \A p \in 1..Len(arg.config.pages) :
              \A i \in 1..Len(kept(p)) :
                Strings(out.reply.val.pages[p].sections[i].props)
                  = [n \in 1..Len(Strings(kept(p)[i].props)) |->
                       Escaped(Strings(kept(p)[i].props)[n])]
       /\ out.format = "html" =>
            \A p \in 1..Len(arg.config.pages) :
              \A i \in 1..Len(kept(p)) :
                arg.config.pages[p].id = "home" /\ kept(p)[i].type = "hero" =>
                  Occurs(<<"<h1>">> \o Escaped(Text(kept(p)[i].props, "headline"))
                           \o <<"</h1>">>, out.reply.val)

\* ---- C23 ----
\* C23: after an Update has set a draft's brandName to a value containing
\* <script>...</script>, the next Preview of the draft as HTML succeeds, and
\* the document it returns holds no <script> but the escaped form
\* &lt;script&gt; of it.
ScriptTag == <<"<", "s", "c", "r", "i", "p", "t", ">">>

NameJustSet(n) ==
  out.fn = "updateDraft" /\ arg.brandName = n /\ out.reply.http = 200

C23_HostileBrandName ==
  [][NameJustSet(ScriptName) /\ out'.fn = "getPreview" /\ arg'.code = "html"
       => /\ out'.reply.http = 200
          /\ ~Occurs(ScriptTag, out'.reply.val)
          /\ Occurs(Escaped(ScriptTag), out'.reply.val)]_vars

\* ---- C26 ----
\* C26: the brandName of the stored draft and the brand.name of every
\* generated config are normalized: at most 100 characters, none of them a
\* control character, no whitespace at either end, whitespace only as single
\* spaces; and a Create or Update whose brand name has nothing but control
\* characters and whitespace in it is rejected.
IsNormalized(s) ==
  /\ Len(s) >= 1 /\ Len(s) <= 100
  /\ \A i \in 1..Len(s) : s[i] \notin {"NUL", "TAB"}
  /\ s[1] # " " /\ s[Len(s)] # " "
  /\ \A i \in 1..(Len(s) - 1) : ~(s[i] = " " /\ s[i + 1] = " ")

NothingLeft(s) == \A i \in 1..Len(s) : s[i] \in {"NUL", "TAB", " "}

NameSent ==
  out.fn = "createDraft" \/ (out.fn = "updateDraft" /\ arg.code = "unset")

C26_BrandNameNormalized ==
  /\ redisDraft.present => IsNormalized(redisDraft.val.brand.brandName)
  /\ out.fn = "getPreview" /\ out.reply.http = 200 => IsNormalized(out.brand.name)
  /\ NameSent /\ NothingLeft(arg.brandName) => out.reply.http >= 400

\* ---- C27 ----
\* C27: the stored draft's industry code is one of the nine codes, and a
\* Create or Update that sends the code "unknown" with an otherwise valid
\* body succeeds and leaves the code other in the stored draft.
CodeSent ==
  \/ out.fn = "createDraft" /\ arg.brandName = Acme
  \/ out.fn = "updateDraft" /\ arg.code # "unset" /\ created

C27_IndustryClosedSet ==
  /\ redisDraft.present =>
       redisDraft.val.brand.industry \in
         {"tech", "finance", "healthcare", "retail", "education", "real-estate",
          "consulting", "restaurant", "other"}
  /\ CodeSent /\ arg.code = "unknown" =>
       /\ out.reply.http \in {200, 201}
       /\ redisDraft.present /\ redisDraft.val.brand.industry = "other"

\* ---- C28 ----
\* C28: resolving the props of a section template gives the same tree with
\* every string in it, whether the value of a field, an element of an array
\* or inside a nested array, read once from left to right and each
\* {{brandName}}, {{industryLabel}}, {{logoUrl}} and {{slug}} met replaced by
\* the context value as it is; arrays stay arrays, in order.
TokenValue(s, i, context) ==
  LET At(tok) == i + Len(tok) - 1 <= Len(s) /\ SubSeq(s, i, i + Len(tok) - 1) = tok
  IN CASE At(TokBrandName)     -> [len |-> Len(TokBrandName), v |-> context.brandName]
       [] At(TokIndustryLabel) -> [len |-> Len(TokIndustryLabel),
                                   v |-> context.industryLabel]
       [] At(TokLogoUrl)       -> [len |-> Len(TokLogoUrl), v |-> context.logoUrl]
       [] At(TokSlug)          -> [len |-> Len(TokSlug), v |-> context.slug]
       [] OTHER                -> [len |-> 1, v |-> <<s[i]>>]

RECURSIVE LiteralFrom(_, _, _)
LiteralFrom(s, i, context) ==
  IF i > Len(s) THEN <<>>
  ELSE TokenValue(s, i, context).v
         \o LiteralFrom(s, i + TokenValue(s, i, context).len, context)

RECURSIVE LiteralTree(_, _)
LiteralTree(x, context) ==
  CASE x.k = "str" -> JStr(LiteralFrom(x.v, 1, context))
    [] x.k = "arr" -> JArr([i \in 1..Len(x.v) |-> LiteralTree(x.v[i], context)])
    [] x.k = "obj" -> JObj([i \in 1..Len(x.v) |->
                              <<x.v[i][1], LiteralTree(x.v[i][2], context)>>])
    [] OTHER       -> x

C28_TokensLiteral ==
  out.fn = "resolveSectionProps" =>
    /\ out.err = "none"
    /\ out.val = LiteralTree(arg.template.props, arg.context)

\* ---- C29 ----
\* C29: in the section generated from a section template, every field, at
\* any depth, whose template value is exactly {{logoAssetId}} holds the
\* logo's asset id, or null when there is no logo; a field whose template
\* value has the token inside a longer string holds a string without the
\* token, with the id in it when there is a logo.
Elem(y, i) == IF y.k = "arr" THEN y.v[i] ELSE Get(y, IndexName(i))

RECURSIVE LogoResolved(_, _, _)
LogoResolved(x, y, logo) ==
  IF x.k = "obj"
  THEN \A i \in 1..Len(x.v) :
         LET t == x.v[i][2]
             g == Get(y, x.v[i][1])
         IN CASE t.k = "str" /\ t.v = TokLogoAssetId -> g = LogoAssetId(logo)
              [] t.k = "str" /\ Occurs(TokLogoAssetId, t.v) ->
                   /\ g.k = "str"
                   /\ ~Occurs(TokLogoAssetId, g.v)
                   /\ logo # NoLogo => Occurs(<<logo>>, g.v)
              [] t.k \in {"obj", "arr"} -> LogoResolved(t, g, logo)
              [] OTHER -> TRUE
  ELSE IF x.k = "arr"
  THEN \A i \in 1..Len(x.v) :
         x.v[i].k \in {"obj", "arr"} => LogoResolved(x.v[i], Elem(y, i), logo)
  ELSE TRUE

C29_LogoAssetId ==
  out.fn = "generateSection" /\ out.err = "none" =>
    LogoResolved(arg.template.props, out.val.props, arg.logo)

\* ---- C25 ----
\* C25: a commit request without the X-Internal-Token header, or with a
\* token other than the configured one, is answered 401 Unauthorized, and
\* the step leaves the lock, the rows and the draft as they were.
C25_CommitAuth ==
  [][arg'.fn = "commit" /\ arg' # arg /\ arg'.token # internalToken
       => /\ out'.reply.http = 401
          /\ UNCHANGED <<redisLock, projects, project_configs, redisDraft>>]_vars

\* ---- C30 ----
\* C30: a save for a key that is there fails and leaves the key as it is,
\* value and TTL; and once the draft's key has been there and is absent,
\* after its TTL ran out or after a delete, no update, updateWithLock or TTL
\* refresh, however it interleaves with the others, makes the key present
\* again.
C30_StoreWriteContract ==
  [][/\ out' # out /\ out'.fn = "save" /\ redisDraft.present
          => redisDraft' = redisDraft /\ ~out'.ok
     /\ created /\ ~redisDraft.present => ~redisDraft'.present]_vars

\* ---- C31 ----
\* C31: an updateWithLock call that writes has read the value that is in the
\* store when it writes, so no write made between its read and its write is
\* overwritten, whatever else runs on the connection; and no call is in an
\* attempt beyond its third.
C31_AtomicUpdate ==
  [][\A u \in Upd :
       /\ upd[u].pc \in {"watch", "get", "exec"} => upd[u].attempt <= 3
       /\ upd[u].pc = "exec" /\ upd'[u].pc = "idle" /\ redisDraft' # redisDraft
            => redisDraft.present /\ redisDraft.val = upd[u].val]_vars

\* ---- C32 ----
\* C32: once a Commit request that acquired the lock has returned (MIGRATED,
\* ALREADY_COMMITTED or an error), the lock key set by that request is no
\* longer present.
C32_LockReleased ==
  \A r \in Req : Done(r) => ~(redisLock.present /\ redisLock.val = r)

\* ---- C33 ----
\* C33: a Commit request that did not acquire the lock leaves the lock key as
\* it is, and a lock key goes away only by the request that set it or by its
\* TTL running out.
C33_OnlySetterDeletes ==
  [][\A r \in Req :
       /\ (pc[r] = "catch" /\ err[r] = "CommitLockError" /\ pc'[r] = "done")
            => redisLock' = redisLock
       /\ (pc'[r] # pc[r] /\ redisLock.present /\ ~redisLock'.present)
            => redisLock.val = r]_vars

\* ---- C34 ----
\* C34: whenever the lock key is present it expires within 30 s, and a client
\* that was answered 409 CommitInProgress and keeps retrying is eventually
\* answered something else (unless the process serving it dies), even when
\* the holder died or the release failed.
Is409(r) == pc[r] = "done" /\ resp[r].http = 409

C34_LockReclaimed ==
  /\ [](redisLock.present =>
          /\ redisLock.exp - now > 0
          /\ redisLock.exp - now <= 30)
  /\ \A r \in 1..LockSpecCommits :
       Is409(r) ~> (pc[r] = "crashed" \/ (pc[r] = "done" /\ resp[r].http # 409))

\* C34 case: a retried request was answered 409 because of a lock whose holder
\* died or whose release failed, and after the lock ran out it was answered
\* otherwise.
C34_Witness ==
  \E r \in 1..LockSpecCommits :
    /\ pc[r] = "done" /\ resp[r].http \notin {0, 409}
    /\ aux[r].retried
    /\ lapsed.lock
    /\ \E h \in 1..LockSpecCommits : pc[h] = "crashed"

\* ---- C35 ----
\* C35: when a Commit answered MIGRATED although its delete of the draft
\* failed, a Commit made afterwards that answers ALREADY_COMMITTED leaves
\* the draft key absent.
C35_CleanupRetried ==
  \A r \in Req :
    (Done(r) /\ aux[r].afterMigrated /\ Is(r, 200, "ALREADY_COMMITTED"))
      => ~redisDraft.present

\* ---- C36 ----
\* C36: after a Preview answered 200 at time t, as long as the key it
\* refreshed has not run out (the clock is before t + ttlSeconds) and no
\* Commit has migrated the draft, GetDraft, Update, Preview and Commit find
\* the draft live: none of them answers DraftNotFound or DraftExpired.
KeptAliveByPreview ==
  /\ opResp = [op |-> "Preview", http |-> 200]
  /\ redisDraft.present
  /\ ~AnyMigrated

C36_ActivityKeepsAlive ==
  [][KeptAliveByPreview =>
       /\ GetDraft => opResp'.http \notin {404, 410}
       /\ UpdateRead(1) => upd'[1].pc = "write"
       /\ PreviewRefresh => opResp'.http \notin {404, 410}
       /\ \A r \in Req : CommitLoadDraft(r) => err'[r] = "none"]_vars

\* ---- C37 ----
\* C37: an Update whose draft is gone from the store when it writes (expired
\* or deleted after the request read it) answers 404 DraftNotFound.
C37_VanishedIsNotFound ==
  [][\A u \in Upd, p \in Patches :
       (UpdateWrite(u, p) /\ ~PatchThrows(p) /\ ~redisDraft.present)
         => opResp' = [op |-> "Update", http |-> 404]]_vars

\* ---- C39 ----
\* C39: in an HTML preview answered 200, every whitelisted section of the
\* config, on whatever page and of whatever whitelisted type, has its own
\* non-empty block in the document, so the document shows the sections that
\* the JSON model of the same config holds.
C39_OneBlockPerSection ==
  Rendered /\ out.format = "html" /\ out.reply.http = 200 =>
    \A p \in 1..Len(arg.config.pages) :
      LET kept == SelectSeq(arg.config.pages[p].sections, OnWhitelist)
          shown == renderJsonPreview(arg.config).val.pages[p].sections
      IN /\ Len(shown) = Len(kept)
         /\ \A i \in 1..Len(kept) :
              LET block == renderSection(kept[i], arg.config.brand).val
              IN block # <<>> /\ Occurs(block, out.reply.val)

\* ---- C40 ----
\* C40: the output of sanitizeHtml holds no script tag, no on<event>=
\* attribute and no javascript: URL, and validateHtml finds it valid.
C40_SanitizerPostcondition ==
  out.fn = "validateHtml" =>
    /\ out.validation.valid
    /\ ~out.validation.script
    /\ ~out.validation.handlers
    /\ \A protocol \in out.validation.protocols : protocol[1] # "j"

=============================================================================
